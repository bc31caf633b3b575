----------------------------- MODULE JpipServer ------------------------------
(***************************************************************************)
(* The JPIP server (lib/openjpip): the lists of targets, sessions,         *)
(* channels and cache models, and the queue of the messages that answer a  *)
(* request.  Requests are served one at a time.                            *)
(*                                                                         *)
(* A data-bin is counted in elements: a precinct in layers, a tile in      *)
(* tile-parts, a header is one.  Requests are those of a client that names *)
(* channels it has been given and not closed, and asks for nothing else in *)
(* a request that closes some.  The client itself is external: `client` is *)
(* what the answers made for it held, for each session and target.         *)
(***************************************************************************)
EXTENDS Integers, FiniteSets, SequencesExt

CONSTANTS
  Files,         \* name -> [jpt, tiles, res, layers] of each file there is
  Names,         \* what clients ask for
  Views,         \* [tiles, level, layers], layers -1 for all
  MaxChannels,   \* bounds on the channels and the sessions open at a time
  MaxSessions,
  Nil            \* the null pointer, and what a request does not have

(* A message, and the queue of the messages for a cache model.             *)
BinNames == {"main", "head", "precinct", "tile"} \X Nat \X Nat
Message == [bin : BinNames, element : Nat, last : BOOLEAN]
MsgQueue == [stateless : BOOLEAN, model : Nat, messages : SUBSET Message]

(* What files and view-windows can be.                                     *)
FilesFit ==
  /\ \A name \in DOMAIN Files :
       Files[name] \in [jpt : BOOLEAN, tiles : SUBSET Nat, res : Nat \ {0}, layers : Nat \ {0}]
  /\ \A v \in Views : v \in [tiles : SUBSET Nat, level : Nat, layers : Int]
  /\ Nil \notin Nat \cup DOMAIN Files \cup Views /\ Nil \notin MsgQueue
ASSUME JpipServerAssumption == FilesFit

VARIABLES
  uses,          \* targetlist: num_of_use of each target
  sessionlist,   \* [seq, last], of sessions
  sessions,      \* session -> [channels, models], lists of these
  cachemodel,    \* channel -> its cache model
  models,        \* cache model -> [target, jppstream, sent]
  query, target, cursession, curchannel, msgqueue, part,
  channel,       \* qr->channel, which the answer reads
  open,          \* the client: channel -> session
  client         \* and <<session, target>> -> bin -> what answers held

serverVars == <<uses, sessionlist, sessions, cachemodel, models, query, target, cursession,
                curchannel, msgqueue, part, channel, open, client>>
lists == <<uses, sessionlist, sessions, cachemodel, models>>

------------------------------------------------------------------------------
(* A linked list: what can be reached from `first`, and `last`.            *)
EmptyList == [seq |-> <<>>, last |-> Nil]
Reaches(l, x) == x \in ToSet(l.seq)
Position(l, x) == CHOOSE i \in DOMAIN l.seq : l.seq[i] = x
AddLast(l, x) ==
  [seq |-> IF l.seq = <<>> THEN <<x>>
           ELSE IF Reaches(l, l.last) THEN Append(SubSeq(l.seq, 1, Position(l, l.last)), x)
           ELSE l.seq,
   last |-> x]
Without_KeepsLast(l, x) == [seq |-> RemoveAt(l.seq, Position(l, x)), last |-> l.last]
Without(l, x) ==
  [seq |-> RemoveAt(l.seq, Position(l, x)),
   last |-> IF x # Head(l.seq) /\ x = l.last THEN l.seq[Position(l, x) - 1] ELSE l.last]

Fresh(used) == CHOOSE i \in 1..(Cardinality(used) + 1) : i \notin used
With(f, x, v) == [y \in DOMAIN f \cup {x} |-> IF y = x THEN v ELSE f[y]]
Minus(f, set) == [y \in DOMAIN f \ set |-> f[y]]

------------------------------------------------------------------------------
(* Data-bins and how many elements each has.                               *)
Bin(class, t, r) == <<class, t, r>>
Main == Bin("main", 0, 0)
Bins(name, jpp) ==
  LET f == Files[name] IN
  {Main} \cup IF jpp THEN {Bin("head", t, 0) : t \in f.tiles}
                            \cup {Bin("precinct", t, r) : t \in f.tiles, r \in 0..(f.res - 1)}
                     ELSE {Bin("tile", t, 0) : t \in f.tiles}
Elements(name, bin) ==
  CASE bin[1] \in {"main", "head"} -> 1
    [] bin[1] = "precinct" -> Files[name].layers
    [] bin[1] = "tile" -> Files[name].res

(* What of a bin a view-window asks for: enqueue_imagedata and the         *)
(* functions below it.                                                     *)
Wanted(name, jpp, view, bin) ==
  LET f == Files[name]
      top == f.res - 1 - view.level
      layers == IF view.layers < 0 \/ view.layers > f.layers THEN f.layers ELSE view.layers
  IN  CASE bin = Main -> 1
        [] bin[2] \notin view.tiles -> 0
        [] bin[1] = "head" -> 1
        [] bin[1] = "precinct" -> IF bin[3] < top THEN f.layers
                                  ELSE IF bin[3] = top THEN layers ELSE 0
        [] OTHER -> f.res - view.level

(* gene_cachemodel.                                                        *)
NewModel(name, reqJPP) ==
  LET jpp == reqJPP \/ ~Files[name].jpt
  IN  [target |-> name, jppstream |-> jpp, sent |-> [b \in Bins(name, jpp) |-> {}]]
Refer(name) == [uses EXCEPT ![name] = @ + 1]

(* delete_cachemodel, on several.                                          *)
Unrefer(set) ==
  [t \in DOMAIN uses |-> uses[t] - Cardinality({m \in set : models[m].target = t})]

IsAllSent_Some(m) == \A b \in DOMAIN m.sent : m.sent[b] # {}
IsAllSent(m) ==
  \A b \in DOMAIN m.sent : m.sent[b] = 1..Elements(m.target, b)

------------------------------------------------------------------------------
NoQuery == [target |-> Nil, cid |-> Nil, cnew |-> FALSE, jpp |-> TRUE,
            all |-> FALSE, cclose |-> {}, view |-> Nil, box |-> TRUE]

ServerInit ==
  /\ uses = <<>> /\ sessionlist = EmptyList /\ sessions = <<>> /\ cachemodel = <<>>
  /\ models = <<>> /\ query = NoQuery /\ target = Nil /\ cursession = Nil
  /\ curchannel = Nil /\ msgqueue = Nil /\ part = "idle" /\ channel = Nil
  /\ open = <<>> /\ client = <<>>

(* box: the metadata asked for, if any, is there.                          *)
(* cclose lists channels, or is "*": all those of the session of cid.      *)
Cids == DOMAIN open
Closing ==
  {q \in [target : {Nil}, cid : Cids \cup {Nil}, cnew : {FALSE}, jpp : {TRUE}, all : BOOLEAN,
          cclose : SUBSET Cids, view : {Nil}, box : {TRUE}] : q.all <=> q.cclose = {}}
Asking ==
  {q \in [target : Names \cup {Nil}, cid : Cids \cup {Nil}, cnew : BOOLEAN, jpp : BOOLEAN,
          all : {FALSE}, cclose : {{}}, view : Views \cup {Nil}, box : BOOLEAN] :
     /\ q.target # Nil \/ q.cid # Nil
     /\ q.cnew => Cardinality(Cids) < MaxChannels
     /\ q.cnew /\ q.cid = Nil => Cardinality(DOMAIN sessions) < MaxSessions
     /\ q.target # Nil /\ q.cid # Nil => q.cnew
     /\ ~q.box => q.view # Nil
     /\ q.jpp \/ (q.target # Nil /\ (q.cnew \/ q.view # Nil))}

(* process_JPIPrequest goes on to the next part that the request has.      *)
AfterOpen(q) ==
  IF q.all \/ q.cclose # {} THEN "close" ELSE IF q.view # Nil THEN "stream" ELSE "respond"
Begin(q) == IF q.cnew THEN "open" ELSE AfterOpen(q)

(* search_session_and_channel.                                             *)
SessionOf(cid) ==
  LET found == {s \in ToSet(sessionlist.seq) : Reaches(sessions[s].channels, cid)}
  IN  IF found = {} THEN Nil ELSE CHOOSE s \in found : TRUE

(* identify_target and associate_channel.                                  *)
Identified(q) == q.target # Nil => q.target \in DOMAIN Files
Associated(q) == q.cid # Nil => SessionOf(q.cid) # Nil
Request ==
  /\ part = "idle"
  /\ \E q \in Closing \cup Asking :
       /\ query' = q
       /\ uses' = IF q.target \in DOMAIN Files \ DOMAIN uses THEN With(uses, q.target, 0)
                                                             ELSE uses
       /\ target' = q.target
       /\ cursession' = IF q.cid # Nil THEN SessionOf(q.cid) ELSE Nil
       /\ curchannel' = q.cid
       /\ channel' = IF Identified(q) /\ Associated(q) THEN q.cid ELSE Nil
       /\ part' = IF Identified(q) /\ Associated(q) THEN Begin(q) ELSE "failed"
  /\ UNCHANGED <<sessionlist, sessions, cachemodel, models, msgqueue, open, client>>

------------------------------------------------------------------------------
(* open_channel: in the session of cid or in a new one, with the cache     *)
(* model the session has for the target, or with that of the channel.      *)
ModelFor(list) == {m \in ToSet(list.seq) : models[m].target = target}
OpenIn(s, list, m) ==
  LET c == Fresh(DOMAIN cachemodel)
  IN  /\ cachemodel' = With(cachemodel, c, m)
      /\ sessions' = With(sessions, s, [list EXCEPT !.channels = AddLast(@, c)])
      /\ cursession' = s /\ curchannel' = c /\ channel' = c
      /\ open' = With(open, c, s)
      /\ part' = AfterOpen(query)
OpenWithModel(s, list) ==
  LET m == Fresh(DOMAIN models)
  IN  /\ models' = With(models, m, NewModel(target, query.jpp)) /\ uses' = Refer(target)
      /\ OpenIn(s, [list EXCEPT !.models = AddLast(@, m)], m)
      /\ client' = With(client, <<s, target>>, [b \in DOMAIN models'[m].sent |-> {}])

OpenSession ==
  /\ part = "open" /\ cursession = Nil
  /\ LET s == Fresh(DOMAIN sessions)
     IN  /\ sessionlist' = AddLast(sessionlist, s)
         /\ OpenWithModel(s, [channels |-> EmptyList, models |-> EmptyList])
  /\ UNCHANGED <<query, target, msgqueue>>
OpenTarget ==
  /\ part = "open" /\ cursession # Nil /\ target # Nil
  /\ ModelFor(sessions[cursession].models) = {}
  /\ OpenWithModel(cursession, sessions[cursession])
  /\ UNCHANGED <<sessionlist, query, target, msgqueue>>
OpenShared ==
  /\ part = "open" /\ cursession # Nil
  /\ LET list == sessions[cursession]
         ms == IF target # Nil THEN ModelFor(list.models) ELSE {cachemodel[curchannel]}
     IN  /\ ms # {} /\ OpenIn(cursession, list, CHOOSE m \in ms : TRUE)
  /\ UNCHANGED <<sessionlist, uses, models, query, target, msgqueue, client>>

(* delete_session: its channels and its cache models go with it.           *)
DeleteSession(s) ==
  LET gone == ToSet(sessions[s].models.seq)
  IN  /\ sessionlist' = Without(sessionlist, s)
      /\ sessions' = Minus(sessions, {s})
      /\ uses' = Unrefer(gone) /\ models' = Minus(models, gone)
      /\ client' = Minus(client, {k \in DOMAIN client : k[1] = s})

(* qr->channel stays what it was when its channel is closed.               *)
CloseAll ==
  /\ part = "close" /\ query.all /\ cursession # Nil
  /\ LET gone == ToSet(sessions[cursession].channels.seq)
     IN  cachemodel' = Minus(cachemodel, gone) /\ open' = Minus(open, gone)
  /\ DeleteSession(cursession)
  /\ part' = "respond"
  /\ UNCHANGED <<query, target, cursession, curchannel, msgqueue, channel>>

(* All must be of one session, that of cid if there is one, or none is     *)
(* closed.  Then each is, and with the last channel the session.           *)
OfOneSession ==
  Cardinality({SessionOf(c) : c \in query.cclose} \cup ({cursession} \ {Nil})) = 1
CloseListed ==
  /\ part = "close" /\ ~query.all /\ OfOneSession
  /\ cursession' = SessionOf(CHOOSE c \in query.cclose : TRUE)
  /\ part' = "closing"
  /\ UNCHANGED <<lists, query, target, curchannel, msgqueue, channel, open, client>>
ToClose == query.cclose \cap DOMAIN cachemodel
CloseOne ==
  /\ part = "closing"
  /\ \E c \in ToClose :
       /\ curchannel' = c
       /\ cachemodel' = Minus(cachemodel, {c}) /\ open' = Minus(open, {c})
       /\ sessions' = With(sessions, cursession,
                          [sessions[cursession] EXCEPT !.channels = Without(@, c)])
  /\ UNCHANGED <<uses, sessionlist, models, query, target, cursession, msgqueue, part, channel,
                 client>>
CloseEnds ==
  /\ part = "closing" /\ ToClose = {} /\ part' = "respond"
  /\ IF sessions[cursession].channels.seq = <<>>
       THEN DeleteSession(cursession)
       ELSE UNCHANGED <<uses, sessionlist, sessions, models, client>>
  /\ UNCHANGED <<cachemodel, query, target, cursession, curchannel, msgqueue, channel, open>>
CloseRefused ==
  /\ part = "close"
  /\ IF query.all THEN cursession = Nil ELSE ~OfOneSession
  /\ part' = "failed"
  /\ UNCHANGED <<lists, query, target, cursession, curchannel, msgqueue, channel, open, client>>

------------------------------------------------------------------------------
(* gene_JPIPstream: what is not sent yet is queued, and marked as sent.    *)
Missing(m, view, b) == (1..Wanted(m.target, m.jppstream, view, b)) \ m.sent[b]
Queue(m) ==
  UNION {{[bin |-> b, element |-> i, last |-> i = Elements(m.target, b)] :
            i \in Missing(m, query.view, b)} : b \in DOMAIN m.sent}
Marked(m) == [m EXCEPT !.sent = [b \in DOMAIN @ |-> @[b] \cup Missing(m, query.view, b)]]

(* A box that is not found ends it before anything is marked.              *)
StreamInto(id, m, stateless) ==
  /\ msgqueue' = [stateless |-> stateless, model |-> id,
                  messages |-> IF query.box THEN Queue(m) ELSE {}]
  /\ models' = With(models, id, IF query.box THEN Marked(m) ELSE m)
  /\ part' = IF query.box THEN "respond" ELSE "failed"

StreamStateless ==
  /\ part = "stream" /\ cursession = Nil
  /\ uses' = Refer(target)
  /\ StreamInto(Fresh(DOMAIN models), NewModel(target, query.jpp), TRUE)
  /\ UNCHANGED <<sessionlist, sessions, cachemodel, query, target, cursession, curchannel,
                 channel, open, client>>
StreamSession ==
  /\ part = "stream" /\ cursession # Nil
  /\ StreamInto(cachemodel[curchannel], models[cachemodel[curchannel]], FALSE)
  /\ UNCHANGED <<uses, sessionlist, sessions, cachemodel, query, target, cursession,
                 curchannel, channel, open, client>>

(* end_QRprocess: the queue goes, and the cache model of a stateless one.  *)
EndQRprocess ==
  LET gone == IF msgqueue # Nil /\ msgqueue.stateless THEN {msgqueue.model} ELSE {}
  IN  /\ uses' = Unrefer(gone) /\ models' = Minus(models, gone)
      /\ msgqueue' = Nil /\ query' = NoQuery /\ target' = Nil
      /\ cursession' = Nil /\ curchannel' = Nil /\ channel' = Nil /\ part' = "idle"
      /\ UNCHANGED <<sessionlist, sessions, cachemodel, open>>

(* send_responsedata: what is queued, and to a channel whether its cache   *)
(* model has been sent in full (EOR).  If it does not go out, as the file  *)
(* it is put together in cannot be made, or it cannot be written, the      *)
(* server is left the same.                                                *)
Served == msgqueue # Nil /\ ~msgqueue.stateless
Key == <<cursession, models[msgqueue.model].target>>
Respond ==
  /\ part = "respond" /\ EndQRprocess
  /\ client' = IF Served
                 THEN [client EXCEPT ![Key] =
                        [b \in DOMAIN @ |-> @[b] \cup {i.element : i \in
                           {x \in msgqueue.messages : x.bin = b}}]]
                 ELSE client
Fail == part = "failed" /\ EndQRprocess /\ UNCHANGED client

(* The cache model of a channel that has been freed is read: the answer    *)
(* says anything, or this is the end of the server and of all it kept.     *)
Crash ==
  /\ part = "respond" /\ channel \notin DOMAIN cachemodel \cup {Nil}
  /\ part' = "crashed" /\ uses' = <<>> /\ sessionlist' = EmptyList /\ sessions' = <<>>
  /\ cachemodel' = <<>> /\ models' = <<>> /\ open' = <<>> /\ client' = <<>>
  /\ msgqueue' = Nil /\ query' = NoQuery /\ target' = Nil
  /\ cursession' = Nil /\ curchannel' = Nil /\ channel' = Nil

(* terminate_JPIPserver: the sessions, then the targets.                   *)
Terminate ==
  /\ part = "idle" /\ part' = "terminated"
  /\ LET gone == UNION {ToSet(sessions[s].models.seq) : s \in ToSet(sessionlist.seq)}
     IN  uses' = Unrefer(gone) /\ models' = Minus(models, gone)
  /\ sessionlist' = EmptyList /\ sessions' = <<>> /\ cachemodel' = <<>>
  /\ open' = <<>> /\ client' = <<>>
  /\ UNCHANGED <<query, target, cursession, curchannel, msgqueue, channel>>

ServerNext ==
  \/ Request \/ OpenSession \/ OpenTarget \/ OpenShared
  \/ CloseAll \/ CloseListed \/ CloseOne \/ CloseEnds \/ CloseRefused
  \/ StreamStateless \/ StreamSession \/ Respond \/ Fail \/ Crash \/ Terminate

ServerSpec == ServerInit /\ [][ServerNext]_serverVars

------------------------------------------------------------------------------
(* A target's num_of_use is the number of cache models that refer to it;   *)
(* each of these is in one session, or in the queue of a stateless request.*)
SessionModels(s) == ToSet(sessions[s].models.seq)
Queued == IF msgqueue # Nil /\ msgqueue.stateless THEN {msgqueue.model} ELSE {}
TargetsCounted ==
  /\ \A t \in DOMAIN uses :
       uses[t] = Cardinality({m \in DOMAIN models : models[m].target = t})
  /\ \A m \in DOMAIN models \ Queued :
       Cardinality({s \in DOMAIN sessions : m \in SessionModels(s)}) = 1
  /\ ToSet(sessionlist.seq) = DOMAIN sessions

(* A channel that was opened and not closed is found, in its session, and  *)
(* has a cache model of that session.                                      *)
ChannelsFound ==
  /\ DOMAIN open = DOMAIN cachemodel
  /\ \A c \in DOMAIN open :
       SessionOf(c) = open[c] /\ cachemodel[c] \in SessionModels(open[c])

(* What is marked as sent is what the answers held and what is queued.     *)
Pending(m, b) ==
  IF Served /\ msgqueue.model = m
    THEN {x.element : x \in {y \in msgqueue.messages : y.bin = b}}
    ELSE {}
Has(s, m) == client[<<s, models[m].target>>]

(* Between requests the cache models are what the answers held, and nothing*)
(* is put in twice or left out of what a view-window needs.                *)
ModelIsClients ==
  part = "idle" => \A s \in DOMAIN sessions : \A m \in SessionModels(s) :
                   models[m].sent = Has(s, m)
NothingTwice ==
  part = "respond" /\ Served =>
    /\ \A x \in msgqueue.messages : x.element \notin client[Key][x.bin]
    /\ \A b \in DOMAIN client[Key] :
         LET m == models[msgqueue.model]
             has == client[Key][b] \cup Pending(msgqueue.model, b)
         IN  /\ 1..Wanted(m.target, m.jppstream, query.view, b) \subseteq has
             /\ \E n \in 0..Elements(m.target, b) : has = 1..n

ServerSound == TargetsCounted /\ ChannelsFound /\ ModelIsClients /\ NothingTwice

(* The channel that the answer reads is gone exactly when this very request*)
(* closed it; to any other, with a queue or without, the EOR says that all *)
(* has been sent when the answers, this one included, held it all.         *)
ChannelKept ==
  part = "respond" /\ channel # Nil =>
    (channel \in DOMAIN cachemodel <=> ~(query.all \/ channel \in query.cclose))
AllSentMeans ==
  part = "respond" /\ channel \in DOMAIN cachemodel =>
    LET m == cachemodel[channel]
    IN  IsAllSent(models[m]) <=>
          \A b \in DOMAIN models[m].sent :
            Has(open[channel], m)[b] \cup Pending(m, b) = 1..Elements(models[m].target, b)
AnswersSound == ChannelKept /\ AllSentMeans

(* qr->channel is a channel, or null: what QR_t says of it, and what does  *)
(* not hold of a request that closes the channel it names.                 *)
AnswerHasChannel == part = "respond" => channel \in DOMAIN cachemodel \cup {Nil}
==============================================================================
