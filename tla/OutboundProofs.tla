--------------------------- MODULE OutboundProofs ---------------------------
(***************************************************************************)
(* Proofs about Outbound for any chats, messages, texts, approvals and     *)
(* clients, with any number of requests and faults.                        *)
(***************************************************************************)
EXTENDS Outbound, SequenceTheorems, TLAPS

(* The records of the state have their fields, whatever these hold.        *)
Shape(r) ==
    r \in [at : {r.at}, update : {r.update}, op : {r.op}, arg : {r.arg}, text : {r.text},
           ok : {r.ok}, then : {r.then}, told : {r.told}, raced : {r.raced}]
StoreShape(s) ==
    s \in [approval : {s.approval}, room : {s.room}, notes : {s.notes},
           proposals : {s.proposals}, jobs : {s.jobs}, published : {s.published}]
TruthOK ==
    truth \in [begun : [Updates -> Nat], settled : SUBSET Updates, by : [Approvals -> Nat],
               warned : {truth.warned}, ruled : {truth.ruled}, doubled : BOOLEAN, crashes : Nat]

Posting == {"post", "save"}
BotAts == {"idle", "think", "act", "log", "talk", "dispatch", "notify", "send", "record", "reply"}
ClientAts == {"idle", "act", "talk", "dispatch", "notify", "send", "record", "look", "post", "save",
              "reply"}
ChatOf(u) == env.inbox[u].chat

(* Where a process can be, and what it has in hand there.                  *)
ProcOK(p, r) ==
    /\ r.at \in IF p = "bot" THEN BotAts ELSE ClientAts
    /\ r.at # "idle" => r.then \in {"reply", "log"}
    /\ r.update \in Updates \cup {0}
    /\ r.text \in Texts \cup {None}
    /\ r.at \in {"think", "talk", "log", "dispatch"} => r.text \in Texts
    /\ r.then = "log" => r.text \in Texts /\ p = "bot" /\ Talks(ChatOf(r.update))
    /\ r.at \in Posting => r.arg \in Approvals
    /\ r.op = "agenda" => r.arg \in {"agenda"} \X Texts
    /\ p = "bot" =>
          /\ r.at # "idle" => r.update \in Updates
          /\ r.at \in {"think", "talk", "log", "dispatch"} => Talks(ChatOf(r.update))
          /\ r.at = "act" => Route(ChatOf(r.update)) = "founder"
          /\ r.at = "act" /\ r.text # None /\ Talks(ChatOf(r.update)) => r.then = "log"
          /\ r.at = "dispatch" => r.then = "reply"

ProcsOK == /\ proc = [p \in Procs |-> proc[p]]
           /\ \A p \in Procs : Shape(proc[p]) /\ ProcOK(p, proc[p])

(* What holds of the tables and the counters by themselves.                *)
Basics ==
    /\ env \in Environments
    /\ ProcsOK
    /\ StoreShape(store) /\ StoreOK(store)
    /\ TruthOK
    /\ events \in 0 .. env.events
    /\ strayed \subseteq Approvals

(* The loop has handled everything below the offset when it is idle, and   *)
(* everything below the update it is at when it is not.                    *)
Below(n) == \A u \in Updates : u < n => u \in truth.settled
Delivery ==
    LET b == proc["bot"] IN
    /\ offset \in 1 .. Len(env.inbox) + 1 /\ acked \in 1 .. Len(env.inbox) + 1
    /\ batch \in Seq(Updates)
    /\ \A i \in 1 .. Len(batch) : batch[i] = batch[1] + i - 1
    /\ batch # << >> => batch[1] >= offset
    /\ Below(acked)
    /\ b.at = "idle" => Below(offset) /\ (batch # << >> => Below(batch[1]))
    /\ b.at # "idle" => /\ Below(b.update) /\ offset = b.update + 1
                        /\ batch # << >> => batch[1] = b.update + 1
                        /\ truth.begun[b.update] >= 1
                        /\ b.update \in truth.settled => truth.begun[b.update] > 1
    /\ \A v \in Updates : truth.begun[v] > 0 => Below(v)
    /\ \A v \in truth.settled : truth.begun[v] >= 1
    /\ \A v \in Updates : /\ truth.begun[v] <= 1 + truth.crashes
                          /\ v >= offset => truth.begun[v] <= truth.crashes
    /\ \A a \in Approvals : truth.by[a] > 0 => truth.by[a] \in Updates /\ truth.begun[truth.by[a]] > 0

(* A free text that became more than a reading is on record once the loop  *)
(* only has the notice and the answer left.                                *)
OnRecord(b) ==
    \/ b.update \in truth.warned
    \/ \E n \in store.notes : n.update = b.update /\ n.key = <<"telegram", b.text>>
Settling(b) == \/ b.at \in {"reply", "dispatch"}
               \/ b.at \in {"notify", "send", "record"} /\ b.then = "reply"
Logged ==
    LET b == proc["bot"] IN
    b.text # None /\ b.op \notin Reads /\ Talks(ChatOf(b.update)) /\ Settling(b) => OnRecord(b)

(* An item with a key is about the risk of that note.                      *)
ItemsMatch == \A i \in store.room : i.key \in Keys => i.about = <<"risk", i.key[2]>>

(* Notices under way together know of each other.                          *)
Noticed ==
    /\ \A p, q \in Procs : p # q /\ Notifying(p) /\ Notifying(q) => proc[p].raced /\ proc[q].raced
    /\ \A p \in Procs : Notifying(p) => proc[p].raced \in BOOLEAN /\ proc[p].told # <<None>>
    /\ \A p \in Procs : proc[p].at = "send" /\ ~proc[p].raced => notice # proc[p].told
    /\ ~truth.doubled

(* One call at a time posts a draft that did not stray, and the count says *)
(* how far it is.                                                          *)
OnePoster(a) ==
    /\ \A c, d \in Publishing(a) : c = d
    /\ \A c \in Publishing(a) : posts[a] = IF proc[c].at = "post" THEN 0 ELSE 1
    /\ Publishing(a) = {} /\ a \notin store.published => posts[a] = 0
    /\ posts[a] <= 1
Posted == posts \in [Approvals -> Nat] /\ \A a \in Approvals \ strayed : OnePoster(a)

IInv == Basics /\ Delivery /\ Logged /\ NotesAreWhole /\ ItemsMatch /\ Noticed /\ Posted
-----------------------------------------------------------------------------
(* Only the two chats of the founder are routed as the founder's, and only *)
(* a dm or a chat that is no group may talk.                               *)
LEMMA FounderRoutes ==
    ASSUME NEW c, c # Unset, Route(c) = "founder"
    PROVE  c \in {env.dm, env.room}
  BY DEF Route, ConversationChat, AlertChat
LEMMA FounderTalks ==
    ASSUME NEW c, c # Unset, Talks(c)
    PROVE  Route(c) = "founder" /\ (c \notin env.groups \/ c = env.dm)
  BY DEF Talks, ConversationChat

(* The settings do not change.                                             *)
LEMMA Static ==
    ASSUME env' = env
    PROVE  /\ Updates' = Updates
           /\ \A c : (Talks(c)' <=> Talks(c)) /\ Route(c)' = Route(c)
           /\ \A u : ChatOf(u)' = ChatOf(u)
           /\ \A p, r : ProcOK(p, r)' <=> ProcOK(p, r)
<1>1. Updates' = Updates  BY DEF Updates
<1>2. ConversationChat' = ConversationChat /\ AlertChat' = AlertChat
  BY DEF ConversationChat, AlertChat
<1>3. ASSUME NEW c PROVE Route(c)' = Route(c)  BY <1>2 DEF Route
<1>4. ASSUME NEW c PROVE Talks(c)' <=> Talks(c)  BY <1>2, <1>3 DEF Talks
<1>5. ASSUME NEW u PROVE ChatOf(u)' = ChatOf(u)  BY DEF ChatOf
<1>6. ASSUME NEW p, NEW r PROVE ProcOK(p, r)' <=> ProcOK(p, r)
  BY <1>1, <1>3, <1>4, <1>5 DEF ProcOK
<1> QED  BY <1>1, <1>3, <1>4, <1>5, <1>6

(* One process moves on, the others stay.                                  *)
LEMMA SetKeeps ==
    ASSUME ProcsOK, env' = env, NEW p \in Procs, NEW r, Shape(r), ProcOK(p, r), Set(p, r)
    PROVE  ProcsOK' /\ proc'[p] = r /\ \A q \in Procs : q # p => proc'[q] = proc[q]
<1>1. /\ proc' = [q \in Procs |-> proc'[q]]
      /\ \A q \in Procs : proc'[q] = IF q = p THEN r ELSE proc[q]
  BY DEF ProcsOK, Set
<1>2. \A q \in Procs : Shape(proc'[q]) /\ ProcOK(q, proc'[q])
  BY <1>1 DEF ProcsOK
<1>3. \A q \in Procs : Shape(proc[q])' /\ ProcOK(q, proc[q])'
  BY <1>2, Static DEF Shape
<1> QED  BY <1>1, <1>3 DEF ProcsOK, Procs

(* The parts of the invariant a step leaves alone.                         *)
DecidesNow(u) ==
    proc["bot"].at # "idle" /\ u \in Updates /\ u = proc["bot"].update /\ truth.begun[u] > 0
LEMMA DeliveryFrame ==
    ASSUME Delivery, env' = env, offset' = offset, acked' = acked, batch' = batch,
           truth'.begun = truth.begun, truth'.settled = truth.settled,
           truth'.crashes = truth.crashes,
           \A a \in Approvals : truth'.by[a] = truth.by[a] \/ DecidesNow(truth'.by[a]),
           proc'["bot"].at = "idle" <=> proc["bot"].at = "idle",
           proc'["bot"].update = proc["bot"].update
    PROVE  Delivery'
<1>1. Updates' = Updates  BY DEF Updates
<1>2. \A n : Below(n)' = Below(n)  BY <1>1 DEF Below
<1>3. ASSUME NEW a \in Approvals, truth'.by[a] > 0
      PROVE  truth'.by[a] \in Updates /\ truth.begun[truth'.by[a]] > 0
  <2>1. CASE truth'.by[a] = truth.by[a]  BY <1>3, <2>1 DEF Delivery
  <2>2. CASE DecidesNow(truth'.by[a])
    BY <1>3, <2>2 DEF Delivery, DecidesNow
  <2> QED  BY <2>1, <2>2
<1> QED  BY <1>1, <1>2, <1>3 DEF Delivery
LEMMA LogFrame ==
    ASSUME Logged, env' = env, store.notes \subseteq store'.notes, truth.warned \subseteq truth'.warned,
           proc'["bot"].update = proc["bot"].update, proc'["bot"].op = proc["bot"].op,
           proc'["bot"].text = proc["bot"].text,
           Settling(proc'["bot"]) => Settling(proc["bot"])
    PROVE  Logged'
<1>1. \A c : Talks(c)' <=> Talks(c)  BY Static
<1>2. OnRecord(proc["bot"]) => OnRecord(proc["bot"])'  BY DEF OnRecord
<1>3. ChatOf(proc["bot"].update)' = ChatOf(proc["bot"].update)  BY DEF ChatOf
<1>4. Settling(proc["bot"])' = Settling(proc'["bot"])  BY DEF Settling
<1> QED  BY <1>1, <1>2, <1>3, <1>4 DEF Logged
LEMMA WholeFrame ==
    ASSUME NotesAreWhole, ItemsMatch, store' = store, truth'.ruled = truth.ruled
    PROVE  NotesAreWhole' /\ ItemsMatch'
  BY DEF NotesAreWhole, ItemsMatch, Items
LEMMA NoticeFrame ==
    ASSUME Noticed, notice' = notice, truth'.doubled = truth.doubled,
           \A p \in Procs : proc'[p].at \in {"send", "record"} => proc'[p] = proc[p]
    PROVE  Noticed'
  BY DEF Noticed, Notifying, Procs
LEMMA PostFrame ==
    ASSUME Posted, posts' = posts, strayed' = strayed, store'.published = store.published,
           \A c \in Clients : proc'[c].at \in Posting \/ proc[c].at \in Posting
                                => proc'[c].at = proc[c].at /\ proc'[c].arg = proc[c].arg
    PROVE  Posted'
<1>1. \A a : Publishing(a)' = Publishing(a)  BY DEF Publishing, Posting
<1>2. \A a : \A c \in Publishing(a) : proc'[c].at = proc[c].at  BY DEF Publishing, Posting
<1>3. \A a : OnePoster(a) => OnePoster(a)'  BY <1>1, <1>2 DEF OnePoster
<1> QED  BY <1>3 DEF Posted
LEMMA TruthFrame ==
    ASSUME TruthOK, truth' = truth, env' = env
    PROVE  TruthOK'
  BY DEF TruthOK, Updates
LEMMA EventKeeps ==
    ASSUME Basics, Event
    PROVE  events' \in 0 .. env.events
  BY EnvironmentAssumption DEF Basics, Event
-----------------------------------------------------------------------------
(* The updates from one on, in order.                                      *)
LEMMA RestInOrder ==
    ASSUME NEW N \in Nat, NEW from \in 1 .. N + 1, NEW b,
           b = [i \in 1 .. N + 1 - from |-> from + i - 1]
    PROVE  /\ b \in Seq(1 .. N)
           /\ \A i \in 1 .. Len(b) : b[i] = b[1] + i - 1
           /\ b # << >> => b[1] = from
<1>1. \A i \in 1 .. N + 1 - from : from + i - 1 \in 1 .. N  OBVIOUS
<1>2. N + 1 - from \in Nat  OBVIOUS
<1>3. b \in Seq(1 .. N) /\ Len(b) = N + 1 - from /\ \A i \in 1 .. N + 1 - from : b[i] = from + i - 1
  BY <1>1, <1>2
<1>4. b # << >> => N + 1 - from >= 1  BY <1>2, <1>3
<1> QED  BY <1>2, <1>3, <1>4

(* The loop asks for updates.                                              *)
LEMMA FetchDelivery ==
    ASSUME Basics, Delivery, env' = env, truth' = truth, proc' = proc, offset' = offset,
           proc["bot"].at = "idle", NEW from \in 1 .. Len(env.inbox) + 1, from >= offset, Below(from),
           acked' \in {acked, from},
           \/ batch' = batch
           \/ batch' = [i \in 1 .. Len(env.inbox) + 1 - from |-> from + i - 1]
    PROVE  Delivery'
<1>1. Len(env.inbox) \in Nat /\ Updates = 1 .. Len(env.inbox)
  BY EnvironmentAssumption DEF Basics, Updates
<1>2. /\ \A n : Below(n)' = Below(n)
      /\ Updates' = Updates
  BY DEF Below, Updates
<1>3. /\ batch' \in Seq(Updates)
      /\ \A i \in 1 .. Len(batch') : batch'[i] = batch'[1] + i - 1
      /\ batch' # << >> => batch'[1] >= offset /\ Below(batch'[1])
  <2>1. CASE batch' = batch
    BY <2>1 DEF Delivery
  <2>2. CASE batch' = [i \in 1 .. Len(env.inbox) + 1 - from |-> from + i - 1]
    BY <2>2, <1>1, RestInOrder
  <2> QED  BY <2>1, <2>2
<1>4. acked' \in 1 .. Len(env.inbox) + 1 /\ Below(acked')  BY DEF Delivery
<1> QED  BY <1>2, <1>3, <1>4 DEF Delivery

LEMMA FetchKeeps ==
    ASSUME IInv, fetchUpdates \/ fetchFails, UNCHANGED <<posts, strayed>>
    PROVE  IInv'
<1>1. /\ env' = env /\ store' = store /\ offset' = offset /\ proc' = proc /\ notice' = notice
      /\ truth' = truth /\ events' \in 0 .. env.events /\ proc["bot"].at = "idle"
  BY EventKeeps DEF IInv, Basics, fetchUpdates, fetchFails
<1>2. Delivery'
  <2> DEFINE from == IF offset > acked THEN offset ELSE acked
  <2>1. Len(env.inbox) \in Nat  BY EnvironmentAssumption DEF IInv, Basics
  <2>2. from \in 1 .. Len(env.inbox) + 1 /\ from >= offset /\ Below(from)
    BY <1>1, <2>1 DEF IInv, Delivery
  <2>3. /\ acked' \in {acked, from}
        /\ \/ batch' = batch
           \/ batch' = [i \in 1 .. Len(env.inbox) + 1 - from |-> from + i - 1]
    BY DEF fetchUpdates, fetchFails
  <2> HIDE DEF from
  <2> QED  BY <1>1, <2>2, <2>3, FetchDelivery DEF IInv
<1>3. ProcsOK'
  BY <1>1, Static DEF IInv, Basics, ProcsOK, Shape, Procs
<1>4. Basics'
  BY <1>1, <1>3, TruthFrame DEF IInv, Basics, StoreShape, StoreOK
<1>5. Logged'  BY <1>1, LogFrame DEF IInv
<1>6. NotesAreWhole' /\ ItemsMatch'  BY <1>1, WholeFrame DEF IInv
<1>7. Noticed'  BY <1>1, NoticeFrame DEF IInv
<1>8. Posted'  BY <1>1, PostFrame DEF IInv
<1> QED  BY <1>2, <1>4, <1>5, <1>6, <1>7, <1>8 DEF IInv

(* The window of the notice passes.                                        *)
LEMMA WindowKeeps ==
    ASSUME IInv, WindowPasses, UNCHANGED <<posts, strayed>>
    PROVE  IInv'
<1>1. /\ env' = env /\ store' = store /\ offset' = offset /\ proc' = proc /\ acked' = acked
      /\ batch' = batch /\ truth' = truth /\ events' \in 0 .. env.events /\ notice' = <<None>>
  BY EventKeeps DEF IInv, Basics, WindowPasses
<1>2. Delivery'
  BY <1>1, DeliveryFrame DEF IInv
<1>3. ProcsOK'
  BY <1>1, Static DEF IInv, Basics, ProcsOK, Shape, Procs
<1>4. Basics'
  BY <1>1, <1>3, TruthFrame DEF IInv, Basics, StoreShape, StoreOK
<1>5. Logged'  BY <1>1, LogFrame DEF IInv
<1>6. NotesAreWhole' /\ ItemsMatch'  BY <1>1, WholeFrame DEF IInv
<1>7. Noticed'  BY <1>1 DEF IInv, Noticed, Notifying, Procs
<1>8. Posted'  BY <1>1, PostFrame DEF IInv
<1> QED  BY <1>2, <1>4, <1>5, <1>6, <1>7, <1>8 DEF IInv
-----------------------------------------------------------------------------
(* What each process starts from.                                          *)
LEMMA IdleOK ==
    ASSUME NEW p
    PROVE  Shape(IdleProc) /\ ProcOK(p, IdleProc)
  BY DEF IdleProc, Shape, ProcOK, BotAts, ClientAts, Posting, None
LEMMA BotIsProc == "bot" \in Procs /\ \A c \in Clients : c \in Procs /\ c # "bot"
  BY ClientAssumption DEF Procs

(* Where a message is sent.                                                *)
LEMMA HandledPlaces ==
    ASSUME NEW m
    PROVE  /\ Handled(m) \in {"act", "talk", "think", "reply"}
           /\ Handled(m) \in {"talk", "think"} => m.wish.op \in {"note", "text"} /\ Talks(m.chat)
           /\ Handled(m) = "act" => Route(m.chat) = "founder"
           /\ Handled(m) = "act" /\ m.wish.op \in {"note", "text"} => ~Talks(m.chat)
           /\ Handled(m) = "reply" /\ m.wish.op \in {"note", "text"} => ~Talks(m.chat)
  BY DEF Handled, Decisions, Reads, Talks

LEMMA BegunOK ==
    ASSUME env \in Environments, NEW u \in Updates
    PROVE  /\ Shape(Begun(u)) /\ ProcOK("bot", Begun(u))
           /\ Begun(u).at \in {"act", "talk", "think", "reply"} /\ Begun(u).update = u
           /\ Begun(u).then = "reply"
           /\ Begun(u).at = "reply" /\ Begun(u).text # None => ~Talks(ChatOf(u))
<1> DEFINE m == env.inbox[u]
           b == Begun(u)
<1>1. m.wish.op \in Decisions \cup Private \cup {"status", "text"} /\ WishOK(m.wish)
  BY EnvironmentAssumption DEF Updates
<1>2. /\ Shape(b) /\ b.at = Handled(m) /\ b.update = u /\ b.then = "reply"
      /\ b.op = IF m.wish.op = "text" THEN "drop" ELSE m.wish.op
      /\ b.arg = m.wish.arg
      /\ b.text = IF m.wish.op \in {"text", "note"} THEN m.wish.arg ELSE None
  BY DEF Begun, IdleProc, Shape
<1>3. b.text \in Texts \cup {None} /\ (m.wish.op \in {"text", "note"} => b.text \in Texts)
      /\ (m.wish.op \notin {"text", "note"} => b.text = None)
  BY <1>1, <1>2 DEF WishOK
<1>4. b.op # "agenda"
  BY <1>1, <1>2 DEF Decisions, Private
<1>5. ChatOf(u) = m.chat  BY DEF ChatOf
<1> HIDE DEF b, m
<1>6. b.at \in {"act", "talk", "think", "reply"}
  BY <1>2, HandledPlaces
<1>7. ProcOK("bot", b)
  <2>1. b.at \in {"talk", "think"} => b.text \in Texts /\ Talks(ChatOf(u))
    BY <1>2, <1>3, <1>5, HandledPlaces
  <2>2. b.at = "act" => Route(ChatOf(u)) = "founder" /\ (b.text # None => ~Talks(ChatOf(u)))
    BY <1>2, <1>3, <1>5, HandledPlaces
  <2> QED  BY <1>2, <1>3, <1>4, <1>6, <2>1, <2>2 DEF ProcOK, BotAts, Posting
<1>8. b.at = "reply" /\ b.text # None => ~Talks(ChatOf(u))
  BY <1>2, <1>3, <1>5, HandledPlaces
<1> QED  BY <1>2, <1>6, <1>7, <1>8 DEF b

(* Counting one more.                                                      *)
LEMMA OneMore ==
    ASSUME NEW u \in Nat, NEW v \in Nat, NEW fu \in Nat, NEW fv \in Nat, NEW n \in Nat,
           fu <= n, fv <= 1 + n, v >= u + 1 => fv <= n, NEW g, g = IF v = u THEN fu + 1 ELSE fv
    PROVE  g <= 1 + n /\ (v >= u + 1 => g <= n)
  OBVIOUS

(* The loop takes the next update.                                         *)
LEMMA TakeDelivery ==
    ASSUME Basics, Delivery, TakeUpdate, proc'["bot"] = Begun(Head(batch))
    PROVE  Delivery' /\ TruthOK' /\ Head(batch) \in Updates
           /\ truth'.warned = truth.warned /\ truth'.ruled = truth.ruled
           /\ truth'.doubled = truth.doubled
<1> DEFINE u == batch[1]
           N == Len(env.inbox)
<1>1. N \in Nat /\ Updates = 1 .. N
  BY EnvironmentAssumption DEF Basics, Updates
<1>2. /\ batch # << >> /\ offset' = u + 1 /\ batch' = Tail(batch) /\ env' = env /\ acked' = acked
      /\ proc["bot"].at = "idle" /\ Head(batch) = u
      /\ truth' = [truth EXCEPT !.begun[u] = @ + 1]
  BY DEF TakeUpdate, TakeNext, Delivery
<1>3. u \in Updates /\ u >= offset /\ Below(u) /\ Len(batch) \in Nat /\ Len(batch) >= 1
      /\ Head(batch) \in Updates
  BY <1>2 DEF Delivery
<1>4. /\ Tail(batch) \in Seq(Updates)
      /\ Len(Tail(batch)) = Len(batch) - 1
      /\ \A i \in 1 .. Len(batch) - 1 : Tail(batch)[i] = batch[i + 1]
  BY <1>2, <1>3 DEF Delivery
<1>5. \A i \in 1 .. Len(batch) - 1 : Tail(batch)[i] = u + i
  BY <1>3, <1>4, <1>1 DEF Delivery
<1>6. Tail(batch) # << >> => Len(batch) - 1 >= 1 /\ Tail(batch)[1] = u + 1
  BY <1>3, <1>4, <1>5
<1>7. /\ truth'.settled = truth.settled /\ truth'.by = truth.by /\ truth'.crashes = truth.crashes
      /\ truth'.begun = [truth.begun EXCEPT ![u] = @ + 1]
      /\ truth'.warned = truth.warned /\ truth'.ruled = truth.ruled
      /\ truth'.doubled = truth.doubled
      /\ TruthOK'
  <2> DEFINE g == [truth.begun EXCEPT ![u] = @ + 1]
  <2>1. /\ truth'.settled = truth.settled /\ truth'.by = truth.by /\ truth'.crashes = truth.crashes
        /\ truth'.begun = g /\ truth'.warned = truth.warned /\ truth'.ruled = truth.ruled
        /\ truth'.doubled = truth.doubled
        /\ truth' \in [begun : {truth'.begun}, settled : {truth'.settled}, by : {truth'.by},
               warned : {truth'.warned}, ruled : {truth'.ruled}, doubled : {truth'.doubled},
               crashes : {truth'.crashes}]
    BY <1>2 DEF Basics, TruthOK
  <2>2. g \in [Updates -> Nat]  BY <1>3 DEF Basics, TruthOK
  <2> HIDE DEF g
  <2>3. Updates' = Updates  BY <1>2 DEF Updates
  <2>4. TruthOK'  BY <2>1, <2>2, <2>3 DEF Basics, TruthOK
  <2> QED  BY <2>1, <2>4 DEF g
<1>8. \A n : Below(n)' = Below(n)
  BY <1>2, <1>7 DEF Below, Updates
<1>9. \A v \in Updates : truth'.begun[v] = IF v = u THEN truth.begun[u] + 1 ELSE truth.begun[v]
  BY <1>3, <1>7 DEF Basics, TruthOK
<1>10. proc'["bot"].at # "idle" /\ proc'["bot"].update = u
  BY <1>2, <1>3, BegunOK DEF Basics
<1>11. truth.begun \in [Updates -> Nat] /\ truth.crashes \in Nat /\ truth.by \in [Approvals -> Nat]
       /\ truth.settled \subseteq Updates
  BY DEF Basics, TruthOK
<1>12. Updates' = Updates  BY <1>2 DEF Updates
<1>13. /\ batch' \in Seq(Updates) /\ \A i \in 1 .. Len(batch') : batch'[i] = batch'[1] + i - 1
       /\ batch' # << >> => batch'[1] = u + 1
  <2>1. batch' \in Seq(Updates) /\ Len(batch') = Len(batch) - 1  BY <1>2, <1>4
  <2>2. batch' # << >> => batch'[1] = u + 1  BY <1>2, <1>6
  <2>3. ASSUME NEW i \in 1 .. Len(batch') PROVE batch'[i] = batch'[1] + i - 1
    <3>1. i \in 1 .. Len(batch) - 1 /\ 1 \in 1 .. Len(batch) - 1  BY <2>1, <1>3
    <3>2. batch'[i] = u + i /\ batch'[1] = u + 1  BY <3>1, <1>2, <1>5
    <3>3. u \in Nat /\ i \in Nat  BY <1>1, <1>3
    <3> HIDE DEF u
    <3> QED  BY <3>2, <3>3
  <2> QED  BY <2>1, <2>2, <2>3
<1>14. offset \in Nat /\ offset' \in 1 .. N + 1  BY <1>1, <1>2, <1>3 DEF Delivery
<1>15. \A v \in Updates : /\ truth'.begun[v] <= 1 + truth.crashes
                          /\ v >= u + 1 => truth'.begun[v] <= truth.crashes
  <2>1. \A v \in Updates : /\ truth.begun[v] <= 1 + truth.crashes
                           /\ v >= offset => truth.begun[v] <= truth.crashes
    BY DEF Delivery
  <2>2. Updates \subseteq Nat  BY <1>1
  <2> HIDE DEF u, N
  <2>3. u \in Nat /\ offset \in Nat /\ u >= offset /\ truth.crashes \in Nat
        /\ truth.begun[u] \in Nat /\ truth.begun[u] <= truth.crashes
    BY <1>3, <1>11, <1>14, <2>1, <2>2
  <2>4. ASSUME NEW v \in Updates
        PROVE  truth'.begun[v] <= 1 + truth.crashes /\ (v >= u + 1 => truth'.begun[v] <= truth.crashes)
    <3>1. v \in Nat /\ truth.begun[v] \in Nat /\ truth.begun[v] <= 1 + truth.crashes
      BY <1>11, <2>1, <2>2
    <3>2. v >= u + 1 => v >= offset  BY <2>3, <3>1
    <3>3. v >= u + 1 => truth.begun[v] <= truth.crashes  BY <2>1, <3>2
    <3>4. truth'.begun[v] = IF v = u THEN truth.begun[u] + 1 ELSE truth.begun[v]  BY <1>9
    <3> QED  BY <2>3, <3>1, <3>3, <3>4, OneMore
  <2> QED  BY <2>4
<1>16. \A v \in Updates : truth'.begun[v] > 0 => Below(v)
  BY <1>3, <1>9, <1>11 DEF Delivery
<1>17. \A v \in truth.settled : truth'.begun[v] >= 1 /\ (v = u => truth'.begun[v] > 1)
  BY <1>3, <1>9, <1>11 DEF Delivery
<1>18. \A v \in Updates : truth.begun[v] > 0 => truth'.begun[v] > 0
  BY <1>9, <1>11
<1>19. truth'.begun[u] >= 1  BY <1>3, <1>9, <1>11
<1> HIDE DEF N, u
<1> QED
  BY <1>2, <1>3, <1>7, <1>8, <1>10, <1>12, <1>13, <1>14, <1>15, <1>16, <1>17, <1>18, <1>19 DEF Delivery, N, u
LEMMA LogFresh ==
    ASSUME env' = env, NEW b, proc'["bot"] = b,
           b.text # None /\ b.op \notin Reads /\ Talks(ChatOf(b.update)) /\ Settling(b)
           => \/ b.update \in truth'.warned
              \/ \E n \in store'.notes : n.update = b.update /\ n.key = <<"telegram", b.text>>
    PROVE  Logged'
<1>1. Talks(ChatOf(proc["bot"].update))' <=> Talks(ChatOf(b.update))
  BY Static DEF ChatOf
<1>2. Settling(proc["bot"])' <=> Settling(b)  BY DEF Settling
<1> QED  BY <1>1, <1>2 DEF Logged, OnRecord

LEMMA TakeKeeps ==
    ASSUME IInv, TakeUpdate, UNCHANGED <<posts, strayed>>
    PROVE  IInv'
<1> DEFINE u == Head(batch)
<1>1. /\ env' = env /\ store' = store /\ acked' = acked /\ notice' = notice /\ events' = events
      /\ Set("bot", Begun(u))
  BY DEF TakeUpdate, TakeNext
<1>2. u \in Updates
  BY HeadTailProperties DEF IInv, Delivery, TakeUpdate
<1>3. /\ Shape(Begun(u)) /\ ProcOK("bot", Begun(u))
      /\ Begun(u).at \in {"act", "talk", "think", "reply"} /\ Begun(u).update = u
      /\ Begun(u).then = "reply" /\ (Begun(u).at = "reply" /\ Begun(u).text # None => ~Talks(ChatOf(u)))
  BY <1>2, BegunOK DEF IInv, Basics
<1>4. ProcsOK' /\ proc'["bot"] = Begun(u) /\ \A q \in Procs : q # "bot" => proc'[q] = proc[q]
  BY <1>1, <1>3, SetKeeps, BotIsProc DEF IInv, Basics
<1>5. Delivery' /\ TruthOK' /\ truth'.warned = truth.warned /\ truth'.ruled = truth.ruled
      /\ truth'.doubled = truth.doubled
  BY <1>4, TakeDelivery DEF IInv
<1>6. Basics'
  BY <1>1, <1>4, <1>5 DEF IInv, Basics, StoreShape, StoreOK
<1>7. Logged'
  <2> HIDE DEF u
  <2> QED  BY <1>1, <1>3, <1>4, LogFresh DEF Settling
<1>8. NotesAreWhole' /\ ItemsMatch'  BY <1>1, <1>5, WholeFrame DEF IInv
<1>9. Noticed'
  BY <1>1, <1>3, <1>4, <1>5, NoticeFrame DEF IInv
<1>10. Posted'  BY <1>1, <1>4, PostFrame, BotIsProc DEF IInv
<1> QED  BY <1>5, <1>6, <1>7, <1>8, <1>9, <1>10 DEF IInv
(* A step of one process that neither takes nor settles a message, looks   *)
(* at no notice and posts nothing.                                         *)
LEMMA StepKeeps ==
    ASSUME IInv, UNCHANGED <<env, offset, acked, batch, notice, posts, strayed>>,
           StoreShape(store'), StoreOK(store'), TruthOK', events' \in 0 .. env.events,
           NotesAreWhole', ItemsMatch', store'.published = store.published,
           truth'.begun = truth.begun, truth'.settled = truth.settled,
           \A a \in Approvals : truth'.by[a] = truth.by[a] \/ DecidesNow(truth'.by[a]),
           truth'.crashes = truth.crashes, truth'.doubled = truth.doubled,
           store.notes \subseteq store'.notes, truth.warned \subseteq truth'.warned,
           NEW p \in Procs, NEW r, Set(p, r), Shape(r), ProcOK(p, r),
           r.at \notin {"send", "record"} \cup Posting, proc[p].at \notin Posting,
           p = "bot" =>
              /\ r.update = proc[p].update /\ (r.at = "idle" <=> proc[p].at = "idle")
              /\ r.text # None /\ r.op \notin Reads /\ Talks(ChatOf(r.update)) /\ Settling(r)
                 => \/ r.update \in truth'.warned
                    \/ \E n \in store'.notes : n.update = r.update /\ n.key = <<"telegram", r.text>>
    PROVE  IInv'
<1>1. ProcsOK' /\ proc'[p] = r /\ \A q \in Procs : q # p => proc'[q] = proc[q]
  BY SetKeeps DEF IInv, Basics
<1>2. Basics'
  BY <1>1 DEF IInv, Basics, StoreShape, StoreOK
<1>3. proc'["bot"].update = proc["bot"].update
      /\ (proc'["bot"].at = "idle" <=> proc["bot"].at = "idle")
  BY <1>1, BotIsProc
<1>4. Delivery'  BY <1>3, DeliveryFrame DEF IInv
<1>5. Logged'
  <2>1. CASE p = "bot"  BY <1>1, <2>1, LogFresh
  <2>2. CASE p # "bot"
    <3>1. proc'["bot"] = proc["bot"]  BY <1>1, <2>2, BotIsProc
    <3> QED  BY <3>1, LogFrame DEF IInv
  <2> QED  BY <2>1, <2>2
<1>6. Noticed'  BY <1>1, NoticeFrame DEF IInv
<1>7. Posted'  BY <1>1, PostFrame, BotIsProc DEF IInv
<1> QED  BY <1>2, <1>4, <1>5, <1>6, <1>7 DEF IInv

(* The same without a change of the tables.                                *)
LEMMA QuietStep ==
    ASSUME IInv, UNCHANGED <<env, store, offset, acked, batch, notice, truth, posts, strayed>>,
           events' \in 0 .. env.events,
           NEW p \in Procs, NEW r, Set(p, r), Shape(r), ProcOK(p, r),
           r.at \notin {"send", "record"} \cup Posting, proc[p].at \notin Posting,
           p = "bot" =>
              /\ r.update = proc[p].update /\ (r.at = "idle" <=> proc[p].at = "idle")
              /\ r.text # None /\ r.op \notin Reads /\ Talks(ChatOf(r.update)) /\ Settling(r)
                 => OnRecord(r)
    PROVE  IInv'
<1>1. NotesAreWhole' /\ ItemsMatch'  BY WholeFrame DEF IInv
<1>2. TruthOK'  BY TruthFrame DEF IInv, Basics
<1>3. StoreShape(store') /\ StoreOK(store')  BY DEF IInv, Basics
<1> QED  BY <1>1, <1>2, <1>3, StepKeeps DEF OnRecord

(* The loop reads a free text.                                             *)
LEMMA ThinkKeeps ==
    ASSUME IInv, NEW i, Think(i), UNCHANGED <<posts, strayed>>
    PROVE  IInv'
<1> DEFINE b == proc["bot"]
           wish == IF About[b.text].says.op = "meta" THEN About[b.text].says
                   ELSE IF i # Nothing THEN i ELSE About[b.text].says
           at == IF wish = Nothing THEN "talk" ELSE IF wish.op \in Reads THEN "reply" ELSE "act"
           then == IF wish = Nothing \/ wish.op \in Reads THEN "reply" ELSE "log"
           r == [b EXCEPT !.at = at, !.op = wish.op, !.arg = wish.arg, !.then = then]
<1>1. b.at = "think" /\ Set("bot", r) /\ i \in {Nothing} \cup About[b.text].reads
      /\ UNCHANGED <<env, store, offset, acked, batch, notice, truth, events>>
  BY DEF Think
<1>2. Shape(b) /\ ProcOK("bot", b) /\ b.text \in Texts
  BY <1>1, BotIsProc DEF IInv, Basics, ProcsOK, ProcOK
<1>3. WishOK(wish)
  <2>1. WishOK(About[b.text].says) /\ (i # Nothing => WishOK(i))
    BY <1>1, <1>2, WishAssumption
  <2> QED  BY <2>1
<1>4. at \in {"talk", "reply", "act"} /\ then \in {"reply", "log"}
      /\ (at = "reply" => wish.op \in Reads) /\ (at = "act" => then = "log")
  OBVIOUS
<1> HIDE DEF wish, at, then
<1>5. /\ Shape(r) /\ r.at = at /\ r.then = then /\ r.op = wish.op /\ r.arg = wish.arg
      /\ r.update = b.update /\ r.text = b.text
  BY <1>2 DEF Shape
<1> HIDE DEF r
<1>6. Talks(ChatOf(b.update)) /\ b.update \in Updates
  BY <1>1, <1>2 DEF ProcOK
<1>7. Route(ChatOf(b.update)) = "founder"  BY <1>6 DEF Talks
<1>8. ProcOK("bot", r)
  BY <1>2, <1>3, <1>4, <1>5, <1>6, <1>7 DEF ProcOK, WishOK, BotAts, Posting
<1>9. events' \in 0 .. env.events  BY <1>1 DEF IInv, Basics
<1> QED
  BY <1>1, <1>4, <1>5, <1>8, <1>9, QuietStep, BotIsProc DEF Settling, Posting
(* A process answers.                                                      *)
LEMMA ReplyDelivery ==
    ASSUME Basics, Delivery, UNCHANGED <<env, offset, acked, batch>>,
           proc["bot"].at # "idle", proc["bot"].update \in Updates, proc'["bot"].at = "idle",
           truth'.begun = truth.begun, truth'.by = truth.by, truth'.crashes = truth.crashes,
           truth'.settled = truth.settled \cup {proc["bot"].update}
    PROVE  Delivery'
<1> DEFINE u == proc["bot"].update
<1>1. Updates' = Updates /\ Updates \subseteq Nat
  BY EnvironmentAssumption DEF Updates, Basics
<1>2. \A n : Below(n) => Below(n)'
  BY <1>1 DEF Below
<1>3. Below(offset)'
  <2>1. offset = u + 1 /\ Below(u) /\ u \in Nat  BY <1>1 DEF Delivery
  <2>2. \A v \in Updates : v < u + 1 => v < u \/ v = u
    <3> HIDE DEF u
    <3>1. \A x \in Nat : x < u + 1 => x < u \/ x = u  BY <2>1
    <3> QED  BY <1>1, <3>1
  <2> QED  BY <1>1, <2>1, <2>2 DEF Below
<1>4. batch # << >> => batch[1] = offset
  BY DEF Delivery
<1>5. truth.begun[u] >= 1  BY DEF Delivery
<1> QED  BY <1>1, <1>2, <1>3, <1>4, <1>5 DEF Delivery

LEMMA ReplyKeeps ==
    ASSUME IInv, NEW p \in Procs, Reply(p), UNCHANGED <<posts, strayed>>
    PROVE  IInv'
<1>1. /\ UNCHANGED <<env, store, offset, acked, batch, notice, events>>
      /\ Set(p, IdleProc) /\ proc[p].at = "reply"
  BY DEF Reply
<1>2. events' \in 0 .. env.events  BY <1>1 DEF IInv, Basics
<1>3. CASE p # "bot"
  <2>1. truth' = truth  BY <1>3 DEF Reply
  <2>2. IdleProc.at = "idle"  BY DEF IdleProc
  <2> QED  BY <1>1, <1>2, <1>3, <2>1, <2>2, IdleOK, QuietStep DEF Posting
<1>4. CASE p = "bot"
  <2> DEFINE u == proc["bot"].update
  <2>1. ProcsOK' /\ proc'["bot"] = IdleProc /\ \A q \in Procs : q # "bot" => proc'[q] = proc[q]
    BY <1>1, <1>4, IdleOK, SetKeeps DEF IInv, Basics
  <2>2. truth' = [truth EXCEPT !.settled = @ \cup {u}]  BY <1>4 DEF Reply
  <2>3. u \in Updates
    BY <1>1, <1>4 DEF IInv, Basics, ProcsOK, ProcOK
  <2>4. /\ truth'.begun = truth.begun /\ truth'.by = truth.by /\ truth'.crashes = truth.crashes
        /\ truth'.settled = truth.settled \cup {u} /\ truth'.warned = truth.warned
        /\ truth'.ruled = truth.ruled /\ truth'.doubled = truth.doubled /\ TruthOK'
    BY <1>1, <2>2, <2>3 DEF IInv, Basics, TruthOK, Updates
  <2>5. IdleProc.at = "idle" /\ IdleProc.text = None  BY DEF IdleProc
  <2>6. Delivery'
    BY <1>1, <1>4, <2>1, <2>3, <2>4, <2>5, ReplyDelivery DEF IInv
  <2>7. Basics'
    BY <1>1, <1>2, <2>1, <2>4 DEF IInv, Basics, StoreShape, StoreOK
  <2>8. Logged'  BY <1>1, <2>1, <2>5, LogFresh
  <2>9. NotesAreWhole' /\ ItemsMatch'  BY <1>1, <2>4, WholeFrame DEF IInv
  <2>10. Noticed'  BY <1>1, <2>1, <2>4, <2>5, NoticeFrame DEF IInv
  <2>11. Posted'  BY <1>1, <2>1, PostFrame, BotIsProc DEF IInv
  <2> QED  BY <2>6, <2>7, <2>8, <2>9, <2>10, <2>11 DEF IInv
<1> QED  BY <1>3, <1>4

(* A client asks for something.                                            *)
LEMMA RequestKeeps ==
    ASSUME IInv, NEW c \in Clients, NEW w \in env.requests, Request(c, w), UNCHANGED <<posts, strayed>>
    PROVE  IInv'
<1> DEFINE at == CASE w.op = "note" -> "talk" [] w.op = "publish" -> "look" [] OTHER -> "act"
           text == IF w.op = "note" THEN w.arg ELSE None
           r == [IdleProc EXCEPT !.at = at, !.op = w.op, !.arg = w.arg, !.then = "reply", !.text = text]
<1>1. /\ UNCHANGED <<env, store, offset, acked, batch, notice, truth>>
      /\ Set(c, r) /\ proc[c].at = "idle" /\ Event
  BY DEF Request
<1>2. WishOK(w)  BY EnvironmentAssumption DEF IInv, Basics
<1>3. at \in {"talk", "look", "act"} /\ (at = "talk" => w.op = "note")
  OBVIOUS
<1>4. text \in Texts \cup {None} /\ (w.op = "note" => text \in Texts)
  BY <1>2 DEF WishOK
<1> HIDE DEF at, text
<1>5. /\ Shape(r) /\ r.at = at /\ r.then = "reply" /\ r.op = w.op /\ r.arg = w.arg
      /\ r.update = 0 /\ r.text = text
  BY DEF Shape, IdleProc
<1> HIDE DEF r
<1>6. c # "bot" /\ c \in Procs  BY BotIsProc
<1>7. ProcOK(c, r)
  BY <1>2, <1>3, <1>4, <1>5, <1>6 DEF ProcOK, WishOK, ClientAts, Posting
<1>8. events' \in 0 .. env.events  BY <1>1, EventKeeps DEF IInv
<1> QED  BY <1>1, <1>3, <1>5, <1>6, <1>7, <1>8, QuietStep DEF Posting

(* The daemon dies and starts again.                                       *)
LEMMA CrashDelivery ==
    ASSUME Basics, Delivery, env' = env, acked' = acked, offset' = 1, batch' = << >>,
           proc'["bot"].at = "idle",
           truth'.begun = truth.begun, truth'.settled = truth.settled, truth'.by = truth.by,
           truth'.crashes = truth.crashes + 1
    PROVE  Delivery'
<1>1. Len(env.inbox) \in Nat /\ Updates = 1 .. Len(env.inbox) /\ Updates' = Updates
  BY EnvironmentAssumption DEF Basics, Updates
<1>2. \A n : Below(n)' = Below(n)  BY <1>1 DEF Below
<1>3. Below(1)  BY <1>1 DEF Below
<1>4. \A v \in Updates : truth.begun[v] \in Nat /\ truth.crashes \in Nat
  BY DEF Basics, TruthOK
<1>5. \A v \in Updates : truth'.begun[v] <= truth'.crashes /\ truth'.begun[v] <= 1 + truth'.crashes
  BY <1>4 DEF Delivery
<1>6. batch' \in Seq(Updates) /\ Len(batch') = 0  OBVIOUS
<1> QED  BY <1>1, <1>2, <1>3, <1>5, <1>6 DEF Delivery

LEMMA RestartKeeps ==
    ASSUME IInv, Restart
    PROVE  IInv'
<1>1. /\ env' = env /\ store' = store /\ acked' = acked /\ offset' = 1 /\ batch' = << >>
      /\ notice' = <<None>> /\ proc' = [p \in Procs |-> IdleProc] /\ Event /\ posts' = posts
      /\ truth' = [truth EXCEPT !.crashes = @ + 1]
      /\ strayed' = strayed \cup {proc[c].arg : c \in {x \in Clients : proc[x].at = "save"}}
  BY DEF Restart, Crash
<1>2. \A p \in Procs : proc'[p] = IdleProc /\ IdleProc.at = "idle" /\ IdleProc.text = None
  BY <1>1 DEF IdleProc
<1>3. ProcsOK'
  <2>1. \A p \in Procs : Shape(proc'[p]) /\ ProcOK(p, proc'[p])  BY <1>2, IdleOK
  <2>2. \A p \in Procs : ProcOK(p, proc[p])'  BY <1>1, <2>1, Static
  <2> QED  BY <1>1, <2>1, <2>2 DEF ProcsOK, Shape, Procs
<1>4. /\ truth'.begun = truth.begun /\ truth'.by = truth.by /\ truth'.crashes = truth.crashes + 1
      /\ truth'.settled = truth.settled /\ truth'.warned = truth.warned
      /\ truth'.ruled = truth.ruled /\ truth'.doubled = truth.doubled /\ TruthOK'
  <2>1. TruthOK /\ truth.crashes \in Nat  BY DEF IInv, Basics, TruthOK
  <2>2. /\ truth'.begun = truth.begun /\ truth'.by = truth.by /\ truth'.crashes = truth.crashes + 1
        /\ truth'.settled = truth.settled /\ truth'.warned = truth.warned
        /\ truth'.ruled = truth.ruled /\ truth'.doubled = truth.doubled
    BY <1>1, <2>1 DEF TruthOK
  <2>3. truth.crashes + 1 \in Nat  BY <2>1
  <2>4. Updates' = Updates  BY <1>1 DEF Updates
  <2>5. TruthOK'  BY <1>1, <2>1, <2>2, <2>3, <2>4 DEF TruthOK
  <2> QED  BY <2>2, <2>5
<1>5. \A c \in Clients : proc[c].at = "save" => proc[c].arg \in Approvals
  BY BotIsProc DEF IInv, Basics, ProcsOK, ProcOK, Posting
<1>6. strayed' \subseteq Approvals
  BY <1>1, <1>5 DEF IInv, Basics
<1>7. events' \in 0 .. env.events  BY <1>1, EventKeeps DEF IInv
<1>8. Basics'
  BY <1>1, <1>3, <1>4, <1>6, <1>7 DEF IInv, Basics, StoreShape, StoreOK
<1>9. Delivery'
  BY <1>1, <1>2, <1>4, BotIsProc, CrashDelivery DEF IInv
<1>10. Logged'  BY <1>1, <1>2, BotIsProc, LogFresh
<1>11. NotesAreWhole' /\ ItemsMatch'  BY <1>1, <1>4, WholeFrame DEF IInv
<1>12. Noticed'
  BY <1>1, <1>2, <1>4 DEF IInv, Noticed, Notifying, Procs
<1>13. Posted'
  <2>1. \A a : Publishing(a)' = {}  BY <1>2, BotIsProc DEF Publishing
  <2>2. ASSUME NEW a \in Approvals \ strayed' PROVE OnePoster(a)'
    <3>1. OnePoster(a)  BY <1>1, <2>2 DEF IInv, Posted
    <3>2. \A c \in Publishing(a) : proc[c].at = "post"
      BY <1>1, <2>2 DEF Publishing
    <3>3. a \notin store.published => posts[a] = 0  BY <3>1, <3>2 DEF OnePoster
    <3> QED  BY <1>1, <2>1, <3>1, <3>3 DEF OnePoster
  <2> QED  BY <1>1, <2>2 DEF IInv, Posted
<1> QED  BY <1>8, <1>9, <1>10, <1>11, <1>12, <1>13 DEF IInv
-----------------------------------------------------------------------------
(* The tables.                                                             *)
ItemSet == [about : Subjects, key : Keys \cup {NoKey},
            section : {"open", "accepted", "deferred"}, severity : {"high", "critical"}]
Has(room, subject) == \E i \in room : i.about = subject
RoomOK(room) == room \subseteq ItemSet /\ \A i \in room : i.key \in Keys => i.about = <<"risk", i.key[2]>>
Whole(s, ruled) ==
    /\ \A n \in s.notes : n.auto =>
          /\ IsPlan(n.key[2]) => n.key \in s.proposals /\ s.jobs[n.key] # "none"
          /\ IsRisk(n.key[2]) => Has(s.room, <<"risk", n.key[2]>>) \/ <<"risk", n.key[2]>> \in ruled
    /\ \A a \in Approvals : s.approval[a] = "rejected"
                               => Has(s.room, <<"rejected", a>>) \/ <<"rejected", a>> \in ruled
Tables(s) == StoreShape(s) /\ StoreOK(s) /\ RoomOK(s.room)

LEMMA WholeIs ==
    /\ NotesAreWhole <=> Whole(store, truth.ruled)
    /\ NotesAreWhole' <=> Whole(store', truth'.ruled)
<1>1. \A x : Items(x) # {} <=> Has(store.room, x)  BY DEF Items, Has
<1>2. \A x : Items(x)' # {} <=> Has(store'.room, x)  BY DEF Items, Has
<1> QED  BY <1>1, <1>2 DEF NotesAreWhole, Whole
LEMMA TablesAre ==
    ASSUME IInv PROVE Tables(store) /\ Whole(store, truth.ruled)
  BY WholeIs DEF IInv, Basics, Tables, RoomOK, ItemsMatch, StoreOK, ItemSet
LEMMA MatchIs == Tables(store') => ItemsMatch'
  BY DEF Tables, RoomOK, ItemsMatch

LEMMA NoKeyIsNone == NoKey \notin Keys
  BY DEF NoKey, Keys
LEMMA ItemOK ==
    ASSUME NEW x \in Subjects
    PROVE  /\ Item(x, NoKey) \in ItemSet /\ Item(x, NoKey).key \notin Keys
           /\ \A k \in Keys : Item(x, k) \in ItemSet /\ Item(x, k).key = k
           /\ \A k : Item(x, k).about = x
  BY NoKeyIsNone DEF Item, ItemSet

LEMMA OpenedOK ==
    ASSUME NEW room, RoomOK(room), NEW i \in ItemSet, i.key \in Keys => i.about = <<"risk", i.key[2]>>
    PROVE  /\ RoomOK(Opened(room, i)) /\ Has(Opened(room, i), i.about)
           /\ \A x : Has(room, x) => Has(Opened(room, i), x)
  BY DEF RoomOK, Opened, Has

LEMMA RiskRaisedOK ==
    ASSUME NEW room, RoomOK(room), NEW k \in Keys
    PROVE  /\ RoomOK(RiskRaised(room, k)) /\ Has(RiskRaised(room, k), <<"risk", k[2]>>)
           /\ \A x : Has(room, x) => Has(RiskRaised(room, k), x)
<1> DEFINE mine == {i \in room : i.section = "open" /\ i.key = k}
           raised(i) == [i EXCEPT !.severity = "critical"]
<1>1. CASE mine = {}
  <2>1. <<"risk", k[2]>> \in Subjects  BY DEF Keys, Subjects
  <2> DEFINE i == Item(<<"risk", k[2]>>, k)
  <2>2. i \in ItemSet /\ i.key = k /\ i.about = <<"risk", k[2]>>
    BY <2>1, ItemOK
  <2>3. RiskRaised(room, k) = Opened(room, i)  BY <1>1 DEF RiskRaised
  <2> HIDE DEF i
  <2> QED  BY <2>2, <2>3, OpenedOK
<1>2. CASE mine # {}
  <2> DEFINE new == (room \ mine) \cup {raised(i) : i \in mine}
  <2>1. RiskRaised(room, k) = new  BY <1>2 DEF RiskRaised
  <2>2. \A i \in ItemSet : raised(i) \in ItemSet /\ raised(i).about = i.about /\ raised(i).key = i.key
    BY DEF ItemSet
  <2>3. mine \subseteq room /\ room \subseteq ItemSet  BY DEF RoomOK
  <2>4. \A i \in new : i \in room \/ \E j \in mine : i = raised(j)  OBVIOUS
  <2>5. \A j \in mine : raised(j) \in new  OBVIOUS
  <2>6. \A j \in room : j \in new \/ j \in mine  OBVIOUS
  <2>7. \A j \in mine : j.key = k  OBVIOUS
  <2> HIDE DEF new, mine, raised
  <2>8. RoomOK(new)
    BY <2>2, <2>3, <2>4 DEF RoomOK
  <2>9. \A x : Has(room, x) => Has(new, x)
    <3> SUFFICES ASSUME NEW j \in room PROVE Has(new, j.about)  BY DEF Has
    <3>1. CASE j \in new  BY <3>1 DEF Has
    <3>2. CASE j \in mine  BY <3>2, <2>2, <2>3, <2>5 DEF Has
    <3> QED  BY <3>1, <3>2, <2>6
  <2>10. Has(room, <<"risk", k[2]>>)
    BY <1>2, <2>3, <2>7 DEF RoomOK, Has
  <2> QED  BY <2>1, <2>8, <2>9, <2>10
<1> QED  BY <1>1, <1>2

(* A table with a new room.                                                *)
LEMMA RoomChange ==
    ASSUME NEW s, Tables(s), NEW room, RoomOK(room)
    PROVE  LET t == [s EXCEPT !.room = room] IN
           /\ Tables(t) /\ t.room = room /\ t.notes = s.notes /\ t.proposals = s.proposals
           /\ t.jobs = s.jobs /\ t.approval = s.approval /\ t.published = s.published
  BY DEF Tables, StoreShape, StoreOK, RoomOK, ItemSet
LEMMA JobChange ==
    ASSUME NEW s, Tables(s), NEW k \in Keys, NEW status \in JobStatus
    PROVE  LET t == [s EXCEPT !.jobs[k] = status] IN
           /\ Tables(t) /\ t.room = s.room /\ t.notes = s.notes /\ t.proposals = s.proposals
           /\ t.jobs = [s.jobs EXCEPT ![k] = status]
           /\ t.approval = s.approval /\ t.published = s.published
  BY DEF Tables, StoreShape, StoreOK, RoomOK
LEMMA PlannedOK ==
    ASSUME NEW s, Tables(s), NEW k \in Keys
    PROVE  LET t == Planned(s, k) IN
           /\ Tables(t) /\ t.room = s.room /\ t.notes = s.notes /\ t.approval = s.approval
           /\ t.published = s.published /\ t.proposals = s.proposals \cup {k}
           /\ t.jobs[k] # "none" /\ \A j \in Keys : s.jobs[j] # "none" => t.jobs[j] # "none"
<1> DEFINE new == IF s.jobs[k] = "none" THEN "queued" ELSE s.jobs[k]
           f == [s.jobs EXCEPT ![k] = new]
           t == Planned(s, k)
<1>1. s.jobs \in [Keys -> JobStatus] /\ s.proposals \subseteq Keys  BY DEF Tables, StoreOK
<1>2. new \in JobStatus \ {"none"}  BY <1>1 DEF JobStatus
<1>3. f \in [Keys -> JobStatus] /\ f[k] # "none" /\ \A j \in Keys : s.jobs[j] # "none" => f[j] # "none"
  BY <1>1, <1>2
<1>4. /\ StoreShape(t) /\ t.room = s.room /\ t.notes = s.notes /\ t.approval = s.approval
      /\ t.published = s.published /\ t.proposals = s.proposals \cup {k} /\ t.jobs = f
  BY DEF Planned, Tables, StoreShape
<1> HIDE DEF t, f, new
<1>5. StoreOK(t)  BY <1>1, <1>3, <1>4 DEF Tables, StoreOK
<1> QED  BY <1>3, <1>4, <1>5 DEF Tables, t

(* A note, with what its words ask for.                                    *)
LEMMA NotedOK ==
    ASSUME NEW s, Tables(s), NEW ruled, Whole(s, ruled), NEW u \in Nat, NEW k \in Keys,
           NEW auto \in BOOLEAN
    PROVE  LET t == Noted(s, u, k, auto) IN
           /\ Tables(t) /\ t.published = s.published /\ s.notes \subseteq t.notes
           /\ \E n \in t.notes : n.update = u /\ n.key = k
           /\ Whole(t, IF auto /\ IsRisk(k[2]) THEN ruled \ {<<"risk", k[2]>>} ELSE ruled)
<1> DEFINE note == [update |-> u, key |-> k, auto |-> auto, nth |-> Cardinality(s.notes) + 1]
           told == [s EXCEPT !.notes = @ \cup {note}]
           warned == IF auto /\ IsRisk(k[2]) THEN [told EXCEPT !.room = RiskRaised(@, k)] ELSE told
           t == Noted(s, u, k, auto)
           left == IF auto /\ IsRisk(k[2]) THEN ruled \ {<<"risk", k[2]>>} ELSE ruled
<1>1. t = IF auto /\ IsPlan(k[2]) THEN Planned(warned, k) ELSE warned
  BY DEF Noted
<1>2. note.update = u /\ note.key = k /\ note.auto = auto  OBVIOUS
<1> HIDE DEF note
<1>3. /\ Tables(told) /\ told.notes = s.notes \cup {note} /\ told.room = s.room
      /\ told.published = s.published /\ told.approval = s.approval /\ told.jobs = s.jobs
      /\ told.proposals = s.proposals
  BY <1>2 DEF Tables, StoreShape, StoreOK
<1> HIDE DEF told
<1>4. /\ Tables(warned) /\ warned.notes = told.notes /\ warned.published = s.published
      /\ warned.approval = s.approval /\ warned.jobs = s.jobs /\ warned.proposals = s.proposals
      /\ \A x : Has(s.room, x) => Has(warned.room, x)
      /\ auto /\ IsRisk(k[2]) => Has(warned.room, <<"risk", k[2]>>)
  <2>1. CASE auto /\ IsRisk(k[2])
    <3> DEFINE room == RiskRaised(told.room, k)
    <3>1. RoomOK(room) /\ Has(room, <<"risk", k[2]>>) /\ \A x : Has(told.room, x) => Has(room, x)
      BY <1>3, RiskRaisedOK DEF Tables
    <3>2. warned = [told EXCEPT !.room = room]  BY <2>1
    <3> HIDE DEF room, warned
    <3> QED  BY <1>3, <3>1, <3>2, RoomChange
  <2>2. CASE ~(auto /\ IsRisk(k[2]))  BY <1>3, <2>2
  <2> QED  BY <2>1, <2>2
<1> HIDE DEF warned
<1>5. /\ Tables(t) /\ t.notes = told.notes /\ t.published = s.published
      /\ t.approval = s.approval /\ t.room = warned.room
      /\ s.proposals \subseteq t.proposals
      /\ \A j \in Keys : s.jobs[j] # "none" => t.jobs[j] # "none"
      /\ auto /\ IsPlan(k[2]) => k \in t.proposals /\ t.jobs[k] # "none"
  <2>1. CASE auto /\ IsPlan(k[2])  BY <1>1, <1>4, <2>1, PlannedOK
  <2>2. CASE ~(auto /\ IsPlan(k[2]))  BY <1>1, <1>4, <2>2
  <2> QED  BY <2>1, <2>2
<1>6. \A x : x \in ruled /\ x \notin left => Has(t.room, x)
  BY <1>4, <1>5
<1> HIDE DEF t, left
<1>7. \A n \in s.notes : n.key \in Keys  BY DEF Tables, StoreOK
<1>8. Whole(t, left)
  <2>1. ASSUME NEW n \in t.notes, n.auto
        PROVE  /\ IsPlan(n.key[2]) => n.key \in t.proposals /\ t.jobs[n.key] # "none"
               /\ IsRisk(n.key[2]) => Has(t.room, <<"risk", n.key[2]>>) \/ <<"risk", n.key[2]>> \in left
    <3>1. CASE n = note  BY <1>2, <1>4, <1>5, <2>1, <3>1
    <3>2. CASE n \in s.notes  BY <1>4, <1>5, <1>6, <1>7, <2>1, <3>2 DEF Whole
    <3> QED  BY <1>3, <1>5, <3>1, <3>2
  <2>2. \A a \in Approvals : t.approval[a] = "rejected"
             => Has(t.room, <<"rejected", a>>) \/ <<"rejected", a>> \in left
    BY <1>4, <1>5, <1>6 DEF Whole
  <2> QED  BY <2>1, <2>2 DEF Whole
<1>9. s.notes \subseteq t.notes /\ note \in t.notes  BY <1>3, <1>5
<1> QED  BY <1>2, <1>5, <1>8, <1>9 DEF t, left

(* A decision on an approval.                                              *)
LEMMA ResolvedOK ==
    ASSUME NEW s, Tables(s), NEW ruled, Whole(s, ruled), NEW a \in Approvals,
           NEW status \in {"approved", "rejected"}
    PROVE  LET t == Resolved(s, a, status) IN
           /\ Tables(t) /\ t.published = s.published /\ t.notes = s.notes
           /\ Whole(t, IF status = "rejected" THEN ruled \ {<<"rejected", a>>} ELSE ruled)
<1> DEFINE mine == <<"rejected", a>>
           kept == {i \in s.room : ~(i.about = mine /\ i.section = "open")}
           room == IF status = "rejected" THEN Opened(s.room, Item(mine, NoKey)) ELSE kept
           f == [s.approval EXCEPT ![a] = status]
           t == Resolved(s, a, status)
           left == IF status = "rejected" THEN ruled \ {mine} ELSE ruled
<1>1. mine \in Subjects  BY DEF Subjects
<1>2. RoomOK(s.room)  BY DEF Tables
<1>3. /\ RoomOK(room) /\ (status = "rejected" => Has(room, mine))
      /\ \A x : Has(s.room, x) /\ x # mine => Has(room, x)
  <2>1. CASE status = "rejected"
    <3> DEFINE i == Item(mine, NoKey)
    <3>1. i \in ItemSet /\ i.key \notin Keys /\ i.about = mine  BY <1>1, ItemOK
    <3> HIDE DEF i, mine
    <3>2. room = Opened(s.room, i)  BY <2>1 DEF i
    <3> HIDE DEF room
    <3> QED  BY <1>2, <3>1, <3>2, OpenedOK
  <2>2. CASE status # "rejected"
    <3>1. room = kept  BY <2>2
    <3>2. RoomOK(kept)  BY <1>2 DEF RoomOK
    <3>3. \A x : Has(s.room, x) /\ x # mine => Has(kept, x)  BY DEF Has
    <3> QED  BY <2>2, <3>1, <3>2, <3>3
  <2> QED  BY <2>1, <2>2
<1>4. f \in [Approvals -> {"pending", "approved", "rejected"}] /\ f[a] = status
      /\ \A b \in Approvals : b # a => f[b] = s.approval[b]
  BY DEF Tables, StoreOK
<1>5. /\ StoreShape(t) /\ t.approval = f /\ t.room = room /\ t.notes = s.notes /\ t.jobs = s.jobs
      /\ t.proposals = s.proposals /\ t.published = s.published
  BY DEF Tables, StoreShape, Resolved
<1>6. \A b : <<"rejected", b>> = mine => b = a  OBVIOUS
<1>7. \A b : <<"risk", b>> # mine  OBVIOUS
<1>8. \A x : x \in ruled /\ x # mine => x \in left  OBVIOUS
<1> HIDE DEF t, f, room, mine
<1>9. Tables(t)  BY <1>3, <1>4, <1>5 DEF Tables, StoreOK, RoomOK, ItemSet
<1>10. Whole(t, left)
  <2>1. \A n \in t.notes : n.auto =>
          /\ IsPlan(n.key[2]) => n.key \in t.proposals /\ t.jobs[n.key] # "none"
          /\ IsRisk(n.key[2]) => Has(t.room, <<"risk", n.key[2]>>) \/ <<"risk", n.key[2]>> \in left
    BY <1>3, <1>5, <1>7, <1>8 DEF Whole
  <2>2. ASSUME NEW b \in Approvals, t.approval[b] = "rejected"
        PROVE  Has(t.room, <<"rejected", b>>) \/ <<"rejected", b>> \in left
    <3>1. CASE b = a  BY <1>3, <1>4, <1>5, <2>2, <3>1 DEF mine
    <3>2. CASE b # a
      <4>1. <<"rejected", b>> # mine  BY <1>6, <3>2
      <4> QED  BY <1>3, <1>4, <1>5, <1>8, <2>2, <3>2, <4>1 DEF Whole
    <3> QED  BY <3>1, <3>2
  <2> QED  BY <2>1, <2>2 DEF Whole
<1> QED  BY <1>5, <1>9, <1>10 DEF t, mine
(* An item is filed or resolved.                                           *)
LEMMA TransitionedOK ==
    ASSUME NEW s, Tables(s), NEW ruled, Whole(s, ruled), NEW i \in s.room,
           NEW action \in {"accept", "defer", "resolve"}
    PROVE  LET t == Transitioned(s, i, action) IN
           /\ Tables(t) /\ t.published = s.published /\ t.notes = s.notes
           /\ Whole(t, IF action = "resolve" THEN ruled \cup {i.about} ELSE ruled)
<1> DEFINE filed == CASE action = "accept" -> {[i EXCEPT !.section = "accepted"]}
                      [] action = "defer" -> {[i EXCEPT !.section = "deferred"]}
                      [] OTHER -> {}
           room == (s.room \ {i}) \cup filed
           t == Transitioned(s, i, action)
           left == IF action = "resolve" THEN ruled \cup {i.about} ELSE ruled
<1>1. i \in ItemSet /\ (i.key \in Keys => i.about = <<"risk", i.key[2]>>) /\ RoomOK(s.room)
  BY DEF Tables, RoomOK
<1>2. /\ \A j \in filed : j \in ItemSet /\ j.about = i.about /\ j.key = i.key
      /\ action # "resolve" => filed # {}
  BY <1>1 DEF ItemSet
<1>3. t = [s EXCEPT !.room = room]  BY DEF Transitioned
<1> HIDE DEF filed
<1>4. RoomOK(room)  BY <1>1, <1>2 DEF RoomOK
<1>5. \A x : Has(s.room, x) => Has(room, x) \/ (action = "resolve" /\ x = i.about)
  BY <1>2 DEF Has
<1> HIDE DEF room, t
<1>6. /\ Tables(t) /\ t.room = room /\ t.notes = s.notes /\ t.proposals = s.proposals
      /\ t.jobs = s.jobs /\ t.approval = s.approval /\ t.published = s.published
  BY <1>3, <1>4, RoomChange
<1>7. \A x : Has(s.room, x) \/ x \in ruled => Has(t.room, x) \/ x \in left
  BY <1>5, <1>6
<1> HIDE DEF left
<1>8. Whole(t, left)  BY <1>6, <1>7 DEF Whole
<1> QED  BY <1>6, <1>8 DEF t, left

(* A room that only gains items, and a job that goes on.                   *)
LEMMA MoreItems ==
    ASSUME NEW s, Tables(s), NEW ruled, Whole(s, ruled), NEW t, Tables(t),
           t.notes = s.notes, t.proposals = s.proposals, t.approval = s.approval,
           \A k \in Keys : s.jobs[k] # "none" => t.jobs[k] # "none",
           \A x : Has(s.room, x) => Has(t.room, x)
    PROVE  Whole(t, ruled)
<1>1. \A n \in s.notes : n.key \in Keys  BY DEF Tables, StoreOK
<1> QED  BY <1>1 DEF Whole

LEMMA AgendaOK ==
    ASSUME NEW s, Tables(s), NEW ruled, Whole(s, ruled), NEW x \in {"agenda"} \X Texts
    PROVE  LET t == [s EXCEPT !.room = @ \cup {Item(x, NoKey)}] IN
           Tables(t) /\ t.published = s.published /\ t.notes = s.notes /\ Whole(t, ruled)
<1> DEFINE i == Item(x, NoKey)
           room == s.room \cup {i}
           t == [s EXCEPT !.room = room]
<1>1. x \in Subjects  BY DEF Subjects
<1>2. i \in ItemSet /\ i.key \notin Keys  BY <1>1, ItemOK
<1> HIDE DEF i
<1>3. RoomOK(room) /\ \A y : Has(s.room, y) => Has(room, y)
  BY <1>2 DEF RoomOK, Has, Tables
<1> HIDE DEF room
<1>4. /\ Tables(t) /\ t.room = room /\ t.notes = s.notes /\ t.proposals = s.proposals
      /\ t.jobs = s.jobs /\ t.approval = s.approval /\ t.published = s.published
  BY <1>3, RoomChange
<1>5. Whole(t, ruled)
  <2> HIDE DEF t
  <2> QED  BY <1>3, <1>4, MoreItems
<1> QED  BY <1>4, <1>5 DEF room, i

LEMMA RunningOK ==
    ASSUME NEW s, Tables(s), NEW ruled, Whole(s, ruled), NEW k \in Keys
    PROVE  LET t == [s EXCEPT !.jobs[k] = "running"] IN
           Tables(t) /\ t.published = s.published /\ t.notes = s.notes /\ Whole(t, ruled)
<1> DEFINE t == [s EXCEPT !.jobs[k] = "running"]
<1>1. "running" \in JobStatus  BY DEF JobStatus
<1>2. /\ Tables(t) /\ t.room = s.room /\ t.notes = s.notes /\ t.proposals = s.proposals
      /\ t.jobs = [s.jobs EXCEPT ![k] = "running"]
      /\ t.approval = s.approval /\ t.published = s.published
  BY <1>1, JobChange
<1> HIDE DEF t
<1>3. s.jobs \in [Keys -> JobStatus]  BY DEF Tables, StoreOK
<1>4. \A j \in Keys : s.jobs[j] # "none" => t.jobs[j] # "none"  BY <1>2, <1>3
<1>5. Whole(t, ruled)  BY <1>2, <1>4, MoreItems
<1> QED  BY <1>2, <1>5 DEF t

LEMMA JobEndedOK ==
    ASSUME NEW s, Tables(s), NEW ruled, Whole(s, ruled), NEW k \in Keys,
           NEW status \in {"failed", "succeeded"}
    PROVE  LET t == JobEnded(s, k, status) IN
           /\ Tables(t) /\ t.published = s.published /\ t.notes = s.notes
           /\ Whole(t, ruled \ {<<"failed", k>>})
<1> DEFINE i == Item(<<"failed", k>>, NoKey)
           room == IF status = "failed" THEN Opened(s.room, i) ELSE s.room
           u == [s EXCEPT !.jobs[k] = status]
           t == JobEnded(s, k, status)
<1>1. <<"failed", k>> \in Subjects  BY DEF Subjects
<1>2. i \in ItemSet /\ i.key \notin Keys  BY <1>1, ItemOK
<1>3. RoomOK(s.room)  BY DEF Tables
<1>4. RoomOK(room) /\ \A y : Has(s.room, y) => Has(room, y)
  <2> HIDE DEF i
  <2> QED  BY <1>2, <1>3, OpenedOK
<1>5. s.jobs \in [Keys -> JobStatus] /\ status \in JobStatus \ {"none"}
  BY DEF Tables, StoreOK, JobStatus
<1>6. /\ Tables(u) /\ u.room = s.room /\ u.notes = s.notes /\ u.proposals = s.proposals
      /\ u.jobs = [s.jobs EXCEPT ![k] = status]
      /\ u.approval = s.approval /\ u.published = s.published
  BY <1>5, JobChange
<1>7. /\ StoreShape(t) /\ t.room = room /\ t.notes = s.notes /\ t.proposals = s.proposals
      /\ t.jobs = [s.jobs EXCEPT ![k] = status]
      /\ t.approval = s.approval /\ t.published = s.published
  BY DEF JobEnded, Tables, StoreShape
<1> HIDE DEF t, u, room
<1>8. Tables(t)
  BY <1>4, <1>6, <1>7 DEF Tables, StoreOK, RoomOK, ItemSet
<1>9. \A j \in Keys : s.jobs[j] # "none" => t.jobs[j] # "none"  BY <1>5, <1>7
<1>10. \A y : <<"failed", k>> # <<"risk", y>> /\ <<"failed", k>> # <<"rejected", y>>  OBVIOUS
<1>11. Whole(t, ruled \ {<<"failed", k>>})
  <2> DEFINE left == ruled \ {<<"failed", k>>}
  <2>1. \A x : x \in ruled /\ x \notin left => \A y : x # <<"risk", y>> /\ x # <<"rejected", y>>
    BY <1>10
  <2>2. \A x : Has(s.room, x) => Has(t.room, x)  BY <1>4, <1>7
  <2> HIDE DEF left
  <2>3. \A n \in s.notes : n.key \in Keys  BY DEF Tables, StoreOK
  <2>4. Whole(t, left)  BY <1>7, <1>9, <2>1, <2>2, <2>3 DEF Whole
  <2> QED  BY <2>4 DEF left
<1> QED  BY <1>7, <1>8, <1>11 DEF t

(* What an operation makes of the tables.                                  *)
Left(op, arg) == IF op = "resolve" THEN truth.ruled \cup {arg}
                 ELSE IF op = "rejected" THEN truth.ruled \ {<<"rejected", arg>>} ELSE truth.ruled
LEMMA OutcomesOK ==
    ASSUME IInv, NEW op, NEW arg, op = "agenda" => arg \in {"agenda"} \X Texts,
           NEW s \in Outcomes(op, arg)
    PROVE  /\ Tables(s) /\ s.published = store.published /\ s.notes = store.notes
           /\ Whole(s, Left(op, arg)) /\ (op \in {"approved", "rejected"} => arg \in Approvals)
<1>1. Tables(store) /\ Whole(store, truth.ruled)  BY TablesAre
<1>2. CASE op \in {"approved", "rejected"}
  <2>1. s \in {Resolved(store, a, op) : a \in Approvals \cap {arg}}  BY <1>2 DEF Outcomes
  <2>2. arg \in Approvals /\ s = Resolved(store, arg, op)  BY <2>1
  <2>3. Left(op, arg) = IF op = "rejected" THEN truth.ruled \ {<<"rejected", arg>>} ELSE truth.ruled
    BY <1>2 DEF Left
  <2> QED  BY <1>1, <1>2, <2>2, <2>3, ResolvedOK
<1>3. CASE op \in {"accept", "defer", "resolve"}
  <2>1. s \in {Transitioned(store, i, op) : i \in Items(arg)}  BY <1>3 DEF Outcomes
  <2>2. PICK i \in store.room : i.about = arg /\ s = Transitioned(store, i, op)
    BY <2>1 DEF Items
  <2>3. Left(op, arg) = IF op = "resolve" THEN truth.ruled \cup {i.about} ELSE truth.ruled
    BY <1>3, <2>2 DEF Left
  <2> QED  BY <1>1, <1>3, <2>2, <2>3, TransitionedOK
<1>4. CASE op = "agenda"
  <2>1. s = [store EXCEPT !.room = @ \cup {Item(arg, NoKey)}]  BY <1>4 DEF Outcomes
  <2>2. Left(op, arg) = truth.ruled  BY <1>4 DEF Left
  <2> QED  BY <1>1, <1>4, <2>1, <2>2, AgendaOK
<1>5. CASE op = "dispatch"
  <2>1. arg \in Keys /\ s = [store EXCEPT !.jobs[arg] = "running"]  BY <1>5 DEF Outcomes
  <2>2. Left(op, arg) = truth.ruled  BY <1>5 DEF Left
  <2> QED  BY <1>1, <1>5, <2>1, <2>2, RunningOK
<1>6. CASE op \notin {"approved", "rejected", "accept", "defer", "resolve", "agenda", "dispatch"}
  <2>1. s = store  BY <1>6 DEF Outcomes
  <2>2. Left(op, arg) = truth.ruled  BY <1>6 DEF Left
  <2> QED  BY <1>1, <1>6, <2>1, <2>2
<1> QED  BY <1>2, <1>3, <1>4, <1>5, <1>6
-----------------------------------------------------------------------------
(* The operations.                                                         *)
LEMMA ProcIs ==
    ASSUME IInv, NEW p \in Procs
    PROVE  Shape(proc[p]) /\ ProcOK(p, proc[p])
  BY DEF IInv, Basics, ProcsOK

(* An operation is over: on to its notice, its note or its answer.         *)
LEMMA AfterAct ==
    ASSUME IInv, NEW p \in Procs, proc[p].at = "act", NEW at, at \in {"notify", proc[p].then},
           NEW n, n \in {[proc[p] EXCEPT !.at = at], [proc[p] EXCEPT !.at = at, !.ok = FALSE]}
    PROVE  /\ Shape(n) /\ ProcOK(p, n) /\ n.at \in {"notify", "reply", "log"} /\ n.update = proc[p].update
           /\ p = "bot" => ~(n.text # None /\ Talks(ChatOf(n.update)) /\ Settling(n))
<1> DEFINE r == proc[p]
<1>1. Shape(r) /\ ProcOK(p, r)  BY ProcIs
<1>2. /\ Shape(n) /\ n.at = at /\ n.update = r.update /\ n.op = r.op /\ n.arg = r.arg
      /\ n.text = r.text /\ n.then = r.then
  <2> HIDE DEF r
  <2>1. CASE n = [r EXCEPT !.at = at]  BY <1>1, <2>1 DEF Shape
  <2>2. CASE n = [r EXCEPT !.at = at, !.ok = FALSE]  BY <1>1, <2>2 DEF Shape
  <2> QED  BY <2>1, <2>2 DEF r
<1>3. r.at = "act" /\ r.then \in {"reply", "log"} /\ at \in {"notify", "reply", "log"}
  BY <1>1 DEF ProcOK
<1>4. at = "log" => r.then = "log"  BY <1>3
<1> HIDE DEF r
<1>5. ProcOK(p, n)
  BY <1>1, <1>2, <1>3, <1>4 DEF ProcOK, BotAts, ClientAts, Posting
<1>6. p = "bot" => ~(n.text # None /\ Talks(ChatOf(n.update)) /\ Settling(n))
  <2>1. p = "bot" /\ r.text # None /\ Talks(ChatOf(r.update)) => r.then = "log"
    BY <1>1 DEF ProcOK, r
  <2> QED  BY <1>2, <1>3, <2>1 DEF Settling, r
<1> QED  BY <1>2, <1>3, <1>5, <1>6 DEF r

LEMMA ActDoneKeeps ==
    ASSUME IInv, NEW p \in Procs, ActDone(p), UNCHANGED <<posts, strayed>>
    PROVE  IInv'
<1> DEFINE r == proc[p]
           decides == r.op \in {"approved", "rejected"}
           at == IF decides THEN r.then ELSE "notify"
           n == [r EXCEPT !.at = at]
           by == IF p = "bot" /\ decides /\ r.update > truth.by[r.arg]
                 THEN [truth.by EXCEPT ![r.arg] = r.update] ELSE truth.by
<1>1. /\ r.at = "act" /\ store' \in Outcomes(r.op, r.arg) /\ Set(p, n)
      /\ UNCHANGED <<env, offset, acked, batch, notice, events>>
  BY DEF ActDone
<1>2. truth' = [truth EXCEPT !.by = by, !.ruled = Left(r.op, r.arg)]
  BY DEF ActDone, Left
<1>3. Shape(r) /\ ProcOK(p, r)  BY ProcIs
<1>4. /\ Shape(n) /\ ProcOK(p, n) /\ n.at \in {"notify", "reply", "log"} /\ n.update = r.update
      /\ p = "bot" => ~(n.text # None /\ Talks(ChatOf(n.update)) /\ Settling(n))
  BY <1>1, AfterAct
<1>5. /\ Tables(store') /\ store'.published = store.published /\ store'.notes = store.notes
      /\ Whole(store', Left(r.op, r.arg)) /\ (decides => r.arg \in Approvals)
  BY <1>1, <1>3, OutcomesOK DEF ProcOK
<1>6. truth \in [begun : [Updates -> Nat], settled : SUBSET Updates, by : [Approvals -> Nat],
               warned : {truth.warned}, ruled : {truth.ruled}, doubled : BOOLEAN, crashes : Nat]
  BY DEF IInv, Basics, TruthOK
<1>7. p = "bot" => r.update \in Updates /\ r.update \in Nat
  BY <1>1, <1>3, EnvironmentAssumption DEF ProcOK, IInv, Basics, Updates
<1>8. by \in [Approvals -> Nat]
      /\ \A a \in Approvals : by[a] = truth.by[a] \/ (p = "bot" /\ by[a] = r.update)
  BY <1>5, <1>6, <1>7
<1> HIDE DEF by, n, at, decides
<1>9. /\ truth'.begun = truth.begun /\ truth'.settled = truth.settled /\ truth'.by = by
      /\ truth'.warned = truth.warned /\ truth'.ruled = Left(r.op, r.arg)
      /\ truth'.doubled = truth.doubled /\ truth'.crashes = truth.crashes
      /\ truth' \in [begun : [Updates -> Nat], settled : SUBSET Updates, by : [Approvals -> Nat],
             warned : {truth'.warned}, ruled : {truth'.ruled}, doubled : BOOLEAN, crashes : Nat]
  BY <1>2, <1>6, <1>8
<1>10. TruthOK'  BY <1>1, <1>9 DEF TruthOK, Updates
<1>11. \A a \in Approvals : truth'.by[a] = truth.by[a] \/ DecidesNow(truth'.by[a])
  <2>1. p = "bot" => DecidesNow(r.update)
    BY <1>1, <1>6, <1>7 DEF DecidesNow, IInv, Delivery
  <2> QED  BY <1>8, <1>9, <2>1
<1>12. NotesAreWhole' /\ ItemsMatch'
  BY <1>5, <1>9, WholeIs, MatchIs
<1>13. StoreShape(store') /\ StoreOK(store')  BY <1>5 DEF Tables
<1>14. events' \in 0 .. env.events  BY <1>1 DEF IInv, Basics
<1>15. n.at \notin {"send", "record", "idle"} \cup Posting /\ r.at \notin Posting /\ r.at # "idle"
  BY <1>1, <1>4 DEF Posting
<1> QED
  BY <1>1, <1>4, <1>5, <1>9, <1>10, <1>11, <1>12, <1>13, <1>14, <1>15, StepKeeps

LEMMA ActFailsKeeps ==
    ASSUME IInv, NEW p \in Procs, ActFails(p), UNCHANGED <<posts, strayed>>
    PROVE  IInv'
<1> DEFINE r == proc[p]
           n == [r EXCEPT !.at = r.then, !.ok = FALSE]
<1>1. /\ r.at = "act" /\ Set(p, n) /\ UNCHANGED <<env, offset, acked, batch, notice, truth>>
      /\ \/ store' = store
         \/ r.op = "dispatch" /\ store' \in Outcomes(r.op, r.arg)
      /\ events' = events \/ Event
  BY DEF ActFails
<1>2. Shape(r) /\ ProcOK(p, r)  BY ProcIs
<1>3. /\ Shape(n) /\ ProcOK(p, n) /\ n.at \in {"notify", "reply", "log"} /\ n.update = r.update
      /\ p = "bot" => ~(n.text # None /\ Talks(ChatOf(n.update)) /\ Settling(n))
  BY <1>1, AfterAct
<1>4. /\ Tables(store') /\ store'.published = store.published /\ store'.notes = store.notes
      /\ Whole(store', truth.ruled)
  <2>1. CASE store' = store  BY <2>1, TablesAre
  <2>2. CASE r.op = "dispatch" /\ store' \in Outcomes(r.op, r.arg)
    <3>1. Left(r.op, r.arg) = truth.ruled  BY <2>2 DEF Left
    <3> QED  BY <2>2, <3>1, OutcomesOK
  <2> QED  BY <1>1, <2>1, <2>2
<1> HIDE DEF n
<1>5. TruthOK'  BY <1>1, TruthFrame DEF IInv, Basics
<1>6. NotesAreWhole' /\ ItemsMatch'
  BY <1>1, <1>4, WholeIs, MatchIs
<1>7. StoreShape(store') /\ StoreOK(store')  BY <1>4 DEF Tables
<1>8. events' \in 0 .. env.events  BY <1>1, EventKeeps DEF IInv, Basics
<1>9. n.at \notin {"send", "record", "idle"} \cup Posting /\ r.at \notin Posting /\ r.at # "idle"
  BY <1>1, <1>3 DEF Posting
<1> QED
  BY <1>1, <1>3, <1>4, <1>5, <1>6, <1>7, <1>8, <1>9, StepKeeps
(* A note is kept.                                                         *)
LEMMA NoteKeptKeeps ==
    ASSUME IInv, NEW p \in Procs, NoteKept(p), UNCHANGED <<posts, strayed>>
    PROVE  IInv'
<1> DEFINE r == proc[p]
           k == KeyOf(p)
           auto == r.at = "talk"
           at == IF ToDispatch(store', k, auto, env.dispatch) THEN "dispatch" ELSE "notify"
           n == [r EXCEPT !.at = at, !.then = "reply"]
           left == IF auto /\ IsRisk(k[2]) THEN truth.ruled \ {<<"risk", k[2]>>} ELSE truth.ruled
<1>1. /\ r.at \in {"talk", "log"} /\ store' = Noted(store, r.update, k, auto) /\ Set(p, n)
      /\ truth' = IF auto /\ IsRisk(r.text) THEN [truth EXCEPT !.ruled = @ \ {<<"risk", r.text>>}] ELSE truth
      /\ UNCHANGED <<env, offset, acked, batch, notice, events>>
  BY DEF NoteKept
<1>2. Shape(r) /\ ProcOK(p, r)  BY ProcIs
<1>3. r.text \in Texts /\ r.update \in Nat /\ auto \in BOOLEAN /\ at \in {"dispatch", "notify"}
  BY <1>1, <1>2, EnvironmentAssumption DEF ProcOK, IInv, Basics, Updates
<1>4. k \in Keys /\ k[2] = r.text /\ (p = "bot" => k = <<"telegram", r.text>>)
  BY <1>3 DEF KeyOf, Keys
<1> HIDE DEF k, at
<1>5. /\ Tables(store') /\ store'.published = store.published /\ store.notes \subseteq store'.notes
      /\ (\E m \in store'.notes : m.update = r.update /\ m.key = k) /\ Whole(store', left)
  <2> DEFINE Kept(a, t) ==
        /\ Tables(t) /\ t.published = store.published /\ store.notes \subseteq t.notes
        /\ \E m \in t.notes : m.update = r.update /\ m.key = k
        /\ Whole(t, IF a /\ IsRisk(k[2]) THEN truth.ruled \ {<<"risk", k[2]>>} ELSE truth.ruled)
  <2>1. Tables(store) /\ Whole(store, truth.ruled)  BY TablesAre
  <2>2. \A a \in BOOLEAN : Kept(a, Noted(store, r.update, k, a))
    BY <1>3, <1>4, <2>1, NotedOK
  <2> HIDE DEF Kept
  <2>3. Kept(auto, Noted(store, r.update, k, auto))  BY <2>2, <1>3
  <2>4. Kept(auto, store')  BY <1>1, <2>3
  <2> QED  BY <2>4 DEF Kept
<1>6. /\ truth'.begun = truth.begun /\ truth'.settled = truth.settled /\ truth'.by = truth.by
      /\ truth'.warned = truth.warned /\ truth'.ruled = left
      /\ truth'.doubled = truth.doubled /\ truth'.crashes = truth.crashes /\ TruthOK'
  <2>1. truth \in [begun : [Updates -> Nat], settled : SUBSET Updates, by : [Approvals -> Nat],
               warned : {truth.warned}, ruled : {truth.ruled}, doubled : BOOLEAN, crashes : Nat]
    BY DEF IInv, Basics, TruthOK
  <2>2. CASE auto /\ IsRisk(r.text)
    <3>1. truth' = [truth EXCEPT !.ruled = @ \ {<<"risk", r.text>>}]  BY <1>1, <2>2
    <3>2. left = truth.ruled \ {<<"risk", r.text>>}  BY <1>4, <2>2
    <3> QED  BY <1>1, <2>1, <3>1, <3>2 DEF TruthOK, Updates
  <2>3. CASE ~(auto /\ IsRisk(r.text))
    <3>1. truth' = truth /\ left = truth.ruled  BY <1>1, <1>4, <2>3
    <3> QED  BY <1>1, <2>1, <3>1 DEF TruthOK, Updates
  <2> QED  BY <2>2, <2>3
<1> HIDE DEF left
<1>7. /\ Shape(n) /\ n.at = at /\ n.then = "reply" /\ n.op = r.op /\ n.arg = r.arg
      /\ n.update = r.update /\ n.text = r.text
  BY <1>2 DEF Shape
<1> HIDE DEF n
<1>8. p = "bot" => Talks(ChatOf(r.update)) /\ r.update \in Updates
  BY <1>1, <1>2 DEF ProcOK
<1>9. ProcOK(p, n)
  <2>1. r.at # "idle"  BY <1>1
  <2> QED  BY <1>2, <1>3, <1>7, <1>8, <2>1 DEF ProcOK, BotAts, ClientAts, Posting
<1>10. NotesAreWhole' /\ ItemsMatch'
  BY <1>5, <1>6, WholeIs, MatchIs
<1>11. StoreShape(store') /\ StoreOK(store')  BY <1>5 DEF Tables
<1>12. events' \in 0 .. env.events  BY <1>1 DEF IInv, Basics
<1>13. n.at \notin {"send", "record", "idle"} \cup Posting /\ r.at \notin Posting /\ r.at # "idle"
  BY <1>1, <1>3, <1>7 DEF Posting
<1>14. p = "bot" => \E m \in store'.notes : m.update = n.update /\ m.key = <<"telegram", n.text>>
  BY <1>4, <1>5, <1>7
<1> QED
  BY <1>1, <1>5, <1>6, <1>7, <1>9, <1>10, <1>11, <1>12, <1>13, <1>14, StepKeeps

(* A note is not kept.                                                     *)
LEMMA NoteFailsKeeps ==
    ASSUME IInv, NEW p \in Procs, NoteFails(p), UNCHANGED <<posts, strayed>>
    PROVE  IInv'
<1> DEFINE r == proc[p]
           n == [r EXCEPT !.at = "reply", !.ok = FALSE]
<1>1. /\ r.at \in {"talk", "log"} /\ Event /\ Set(p, n)
      /\ truth' = [truth EXCEPT !.warned = @ \cup {r.update}]
      /\ UNCHANGED <<env, store, offset, acked, batch, notice>>
  BY DEF NoteFails
<1>2. Shape(r) /\ ProcOK(p, r)  BY ProcIs
<1>3. /\ Shape(n) /\ n.at = "reply" /\ n.then = r.then /\ n.op = r.op /\ n.arg = r.arg
      /\ n.update = r.update /\ n.text = r.text
  BY <1>2 DEF Shape
<1>4. /\ truth'.begun = truth.begun /\ truth'.settled = truth.settled /\ truth'.by = truth.by
      /\ truth'.warned = truth.warned \cup {r.update} /\ truth'.ruled = truth.ruled
      /\ truth'.doubled = truth.doubled /\ truth'.crashes = truth.crashes /\ TruthOK'
  BY <1>1 DEF TruthOK, Updates, IInv, Basics
<1> HIDE DEF n
<1>5. r.at # "idle" /\ r.at \notin Posting  BY <1>1 DEF Posting
<1>6. ProcOK(p, n)
  BY <1>2, <1>3, <1>5 DEF ProcOK, BotAts, ClientAts, Posting
<1>7. NotesAreWhole' /\ ItemsMatch'
  BY <1>1, <1>4, WholeFrame DEF IInv
<1>8. StoreShape(store') /\ StoreOK(store')  BY <1>1 DEF IInv, Basics
<1>9. events' \in 0 .. env.events  BY <1>1, EventKeeps DEF IInv
<1>10. n.at \notin {"send", "record", "idle"} \cup Posting  BY <1>3 DEF Posting
<1> QED
  BY <1>1, <1>3, <1>4, <1>5, <1>6, <1>7, <1>8, <1>9, <1>10, StepKeeps

(* The planner job of a note is dispatched.                                *)
LEMMA NoteDispatchKeeps ==
    ASSUME IInv, NEW p \in Procs, NoteDispatch(p), UNCHANGED <<posts, strayed>>
    PROVE  IInv'
<1> DEFINE r == proc[p]
           k == KeyOf(p)
           n == [r EXCEPT !.at = "notify"]
<1>1. /\ r.at = "dispatch" /\ Set(p, n) /\ (events' = events \/ Event)
      /\ store' = store \/ store' = [store EXCEPT !.jobs[k] = "running"]
      /\ UNCHANGED <<env, offset, acked, batch, notice, truth>>
  BY DEF NoteDispatch
<1>2. Shape(r) /\ ProcOK(p, r)  BY ProcIs
<1>3. k \in Keys  BY <1>1, <1>2 DEF KeyOf, Keys, ProcOK
<1>4. /\ Tables(store') /\ store'.published = store.published /\ store'.notes = store.notes
      /\ Whole(store', truth.ruled)
  BY <1>1, <1>3, TablesAre, RunningOK
<1>5. /\ Shape(n) /\ n.at = "notify" /\ n.then = r.then /\ n.op = r.op /\ n.arg = r.arg
      /\ n.update = r.update /\ n.text = r.text
  BY <1>2 DEF Shape
<1> HIDE DEF n, k
<1>6. r.at # "idle" /\ r.at \notin Posting  BY <1>1 DEF Posting
<1>7. ProcOK(p, n)
  BY <1>2, <1>5, <1>6 DEF ProcOK, BotAts, ClientAts, Posting
<1>8. NotesAreWhole' /\ ItemsMatch'
  BY <1>1, <1>4, WholeIs, MatchIs
<1>9. StoreShape(store') /\ StoreOK(store')  BY <1>4 DEF Tables
<1>10. events' \in 0 .. env.events  BY <1>1, EventKeeps DEF IInv, Basics
<1>11. n.at \notin {"send", "record", "idle"} \cup Posting  BY <1>5 DEF Posting
<1>12. TruthOK'  BY <1>1, TruthFrame DEF IInv, Basics
<1>13. p = "bot" /\ n.text # None /\ n.op \notin Reads /\ Talks(ChatOf(n.update))
       => \/ n.update \in truth'.warned
          \/ \E m \in store'.notes : m.update = n.update /\ m.key = <<"telegram", n.text>>
  BY <1>1, <1>4, <1>5 DEF IInv, Logged, Settling, OnRecord
<1> QED
  BY <1>1, <1>4, <1>5, <1>6, <1>7, <1>8, <1>9, <1>10, <1>11, <1>12, <1>13, StepKeeps

(* A job ends.                                                             *)
LEMMA JobEndsKeeps ==
    ASSUME IInv, NEW k \in Keys, NEW status \in {"failed", "succeeded"}, JobEnds(k, status),
           UNCHANGED <<posts, strayed>>
    PROVE  IInv'
<1>1. /\ Event /\ store' = JobEnded(store, k, status)
      /\ truth' = [truth EXCEPT !.ruled = @ \ {<<"failed", k>>}]
      /\ UNCHANGED <<env, offset, acked, batch, proc, notice>>
  BY DEF JobEnds
<1>2. /\ Tables(store') /\ store'.published = store.published /\ store'.notes = store.notes
      /\ Whole(store', truth.ruled \ {<<"failed", k>>})
  BY <1>1, TablesAre, JobEndedOK
<1>3. /\ truth'.begun = truth.begun /\ truth'.settled = truth.settled /\ truth'.by = truth.by
      /\ truth'.warned = truth.warned /\ truth'.ruled = truth.ruled \ {<<"failed", k>>}
      /\ truth'.doubled = truth.doubled /\ truth'.crashes = truth.crashes /\ TruthOK'
  BY <1>1 DEF TruthOK, Updates, IInv, Basics
<1>4. NotesAreWhole' /\ ItemsMatch'
  BY <1>2, <1>3, WholeIs, MatchIs
<1>5. ProcsOK'
  BY <1>1, Static DEF IInv, Basics, ProcsOK, Shape, Procs
<1>6. events' \in 0 .. env.events  BY <1>1, EventKeeps DEF IInv, Basics
<1>7. Basics'
  BY <1>1, <1>2, <1>3, <1>5, <1>6 DEF IInv, Basics, Tables, StoreShape, StoreOK
<1>8. Delivery'  BY <1>1, <1>3, DeliveryFrame DEF IInv
<1>9. Logged'  BY <1>1, <1>2, <1>3, LogFrame DEF IInv
<1>10. Noticed'  BY <1>1, <1>3, NoticeFrame DEF IInv
<1>11. Posted'  BY <1>1, <1>2, PostFrame DEF IInv
<1> QED  BY <1>4, <1>7, <1>8, <1>9, <1>10, <1>11 DEF IInv
-----------------------------------------------------------------------------
(* The notices.                                                            *)

(* A process goes on after its notice.                                     *)
LEMMA AfterNotice ==
    ASSUME IInv, NEW p \in Procs, proc[p].at \in {"notify", "send", "record"},
           NEW n, n = [proc[p] EXCEPT !.at = proc[p].then]
    PROVE  /\ Shape(n) /\ ProcOK(p, n) /\ n.at \in {"reply", "log"}
           /\ n.update = proc[p].update /\ n.op = proc[p].op /\ n.text = proc[p].text
           /\ n.arg = proc[p].arg /\ (Settling(n) => Settling(proc[p]))
           /\ p = "bot" /\ n.text # None /\ n.op \notin Reads /\ Talks(ChatOf(n.update)) /\ Settling(n)
              => OnRecord(n)
<1> DEFINE r == proc[p]
<1>1. Shape(r) /\ ProcOK(p, r)  BY ProcIs
<1>2. /\ Shape(n) /\ n.at = r.then /\ n.update = r.update /\ n.op = r.op /\ n.arg = r.arg
      /\ n.text = r.text /\ n.then = r.then
  BY <1>1 DEF Shape
<1>3. r.then \in {"reply", "log"} /\ r.at \in {"notify", "send", "record"}
  BY <1>1 DEF ProcOK
<1> HIDE DEF r
<1>4. ProcOK(p, n)
  BY <1>1, <1>2, <1>3 DEF ProcOK, BotAts, ClientAts, Posting
<1>5. Settling(n) => Settling(r)
  BY <1>2, <1>3 DEF Settling
<1>6. p = "bot" /\ n.text # None /\ n.op \notin Reads /\ Talks(ChatOf(n.update)) /\ Settling(n)
              => OnRecord(n)
  BY <1>2, <1>5 DEF r, IInv, Logged, OnRecord
<1> QED  BY <1>2, <1>3, <1>4, <1>5, <1>6 DEF r

LEMMA AttentionIsLong == Attention(store) # <<None>>
  BY DEF Attention

(* The look before a notice.                                               *)
LEMMA LookKeeps ==
    ASSUME IInv, NEW p \in Procs, LookWhetherToTell(p), UNCHANGED <<posts, strayed>>
    PROVE  IInv'
<1> DEFINE r == proc[p]
           others == {q \in Procs \ {p} : Notifying(q)}
           n == [r EXCEPT !.at = "send", !.told = Attention(store), !.raced = others # {}]
<1>1. /\ r.at = "notify" /\ UNCHANGED <<env, store, offset, acked, batch, notice, events, truth>>
  BY DEF LookWhetherToTell
<1>2. Shape(r) /\ ProcOK(p, r)  BY ProcIs
<1>3. events' \in 0 .. env.events  BY <1>1 DEF IInv, Basics
<1>4. CASE Set(p, [r EXCEPT !.at = r.then])
  <2>1. r.at \notin Posting /\ r.at # "idle"  BY <1>1 DEF Posting
  <2> DEFINE m == [r EXCEPT !.at = r.then]
  <2>2. /\ Shape(m) /\ ProcOK(p, m) /\ m.at \in {"reply", "log"} /\ m.update = r.update
        /\ p = "bot" /\ m.text # None /\ m.op \notin Reads /\ Talks(ChatOf(m.update)) /\ Settling(m)
           => OnRecord(m)
    BY <1>1, AfterNotice
  <2> HIDE DEF m
  <2>3. m.at \notin {"send", "record", "idle"} \cup Posting  BY <2>2 DEF Posting
  <2>4. Set(p, m)  BY <1>4 DEF m
  <2> QED  BY <1>1, <1>3, <2>1, <2>2, <2>3, <2>4, QuietStep
<1>5. CASE /\ notice # Attention(store)
           /\ proc' = [q \in Procs |-> IF q = p THEN n
                                       ELSE IF q \in others THEN [proc[q] EXCEPT !.raced = TRUE] ELSE proc[q]]
  <2>1. /\ Shape(n) /\ n.at = "send" /\ n.update = r.update /\ n.op = r.op /\ n.arg = r.arg
        /\ n.text = r.text /\ n.then = r.then /\ n.told = Attention(store)
        /\ n.raced = (others # {})
    BY <1>2 DEF Shape
  <2>2. n.told # <<None>> /\ notice # n.told  BY <1>5, <2>1, AttentionIsLong
  <2> DEFINE m(q) == [proc[q] EXCEPT !.raced = TRUE]
  <2>3. \A q \in Procs : /\ Shape(m(q)) /\ m(q).at = proc[q].at /\ m(q).update = proc[q].update
                         /\ m(q).op = proc[q].op /\ m(q).arg = proc[q].arg /\ m(q).text = proc[q].text
                         /\ m(q).then = proc[q].then /\ m(q).told = proc[q].told /\ m(q).raced = TRUE
    BY ProcIs DEF Shape
  <2>4. proc'[p] = n /\ \A q \in Procs \ {p} : proc'[q] = IF q \in others THEN m(q) ELSE proc[q]
    BY <1>5
  <2>5. proc' = [q \in Procs |-> proc'[q]]  BY <1>5
  <2>6. \A q \in Procs \ {p} : q \in others <=> Notifying(q)  OBVIOUS
  <2>7. others = {} => \A q \in Procs \ {p} : ~Notifying(q)  OBVIOUS
  <2>7a. n.raced \in BOOLEAN  BY <2>1
  <2> HIDE DEF n, m, others
  <2>8. ProcOK(p, n)
    BY <1>1, <1>2, <2>1 DEF ProcOK, BotAts, ClientAts, Posting
  <2>9. \A q \in Procs \ {p} : ProcOK(q, m(q))
    BY <2>3, ProcIs DEF ProcOK
  <2>10. \A q \in Procs : Shape(proc'[q]) /\ ProcOK(q, proc'[q])
    BY <2>1, <2>3, <2>4, <2>8, <2>9, ProcIs
  <2>11. \A q \in Procs : ProcOK(q, proc[q])'
    BY <1>1, <2>10, Static
  <2>12. ProcsOK'  BY <2>5, <2>10, <2>11 DEF ProcsOK, Shape, Procs
  <2>13. Basics'
    BY <1>1, <1>3, <2>12, TruthFrame DEF IInv, Basics, StoreShape, StoreOK
  <2>14. \A q \in Procs \ {p} : /\ proc'[q].at = proc[q].at /\ proc'[q].update = proc[q].update
                                /\ proc'[q].op = proc[q].op /\ proc'[q].arg = proc[q].arg
                                /\ proc'[q].text = proc[q].text /\ proc'[q].then = proc[q].then
                                /\ proc'[q].told = proc[q].told
                                /\ proc'[q].raced = IF q \in others THEN TRUE ELSE proc[q].raced
    BY <2>3, <2>4
  <2>15. /\ proc'["bot"].at = "idle" <=> proc["bot"].at = "idle"
         /\ proc'["bot"].update = proc["bot"].update /\ proc'["bot"].op = proc["bot"].op
         /\ proc'["bot"].text = proc["bot"].text
         /\ Settling(proc'["bot"]) => Settling(proc["bot"])
    BY <1>1, <2>1, <2>4, <2>14, BotIsProc DEF Settling
  <2>16. Delivery'  BY <1>1, <2>15, DeliveryFrame DEF IInv
  <2>17. Logged'  BY <1>1, <2>15, LogFrame DEF IInv
  <2>18. NotesAreWhole' /\ ItemsMatch'  BY <1>1, WholeFrame DEF IInv
  <2>19. Noticed'
    <3>1. \A q \in Procs : Notifying(q)' <=> q = p \/ Notifying(q)
      BY <2>1, <2>4, <2>14 DEF Notifying
    <3>2. \A q \in Procs \ {p} : Notifying(q) => proc'[q].raced = TRUE /\ n.raced
      BY <2>1, <2>6, <2>7, <2>14
    <3>3. \A q, s \in Procs : q # s /\ Notifying(q)' /\ Notifying(s)' => proc'[q].raced /\ proc'[s].raced
      BY <2>4, <3>1, <3>2
    <3>4. \A q \in Procs : Notifying(q)' => proc'[q].raced \in BOOLEAN /\ proc'[q].told # <<None>>
      <4> SUFFICES ASSUME NEW q \in Procs, q = p \/ Notifying(q)
                   PROVE  proc'[q].raced \in BOOLEAN /\ proc'[q].told # <<None>>
        BY <3>1
      <4>1. CASE q = p  BY <2>2, <2>4, <2>7a, <4>1
      <4>2. CASE q # p
        <5>1. proc'[q].raced \in BOOLEAN  BY <3>2, <4>2
        <5>2. proc[q].told # <<None>>  BY <4>2 DEF IInv, Noticed
        <5> QED  BY <2>14, <4>2, <5>1, <5>2
      <4> QED  BY <4>1, <4>2
    <3>5. \A q \in Procs : proc'[q].at = "send" /\ ~proc'[q].raced => notice # proc'[q].told
      BY <2>1, <2>2, <2>4, <2>14, <3>2 DEF Notifying
    <3> QED  BY <1>1, <3>3, <3>4, <3>5 DEF Noticed, IInv, Procs
  <2>20. Posted'
    <3>1. \A c \in Clients : proc'[c].at \in Posting \/ proc[c].at \in Posting
                              => proc'[c].at = proc[c].at /\ proc'[c].arg = proc[c].arg
      BY <1>1, <2>1, <2>4, <2>14, BotIsProc DEF Posting
    <3> QED  BY <1>1, <3>1, PostFrame DEF IInv
  <2> QED  BY <2>13, <2>16, <2>17, <2>18, <2>19, <2>20 DEF IInv
<1> QED  BY <1>4, <1>5 DEF LookWhetherToTell
(* The notice goes out, or gets lost.                                      *)
LEMMA SendKeeps ==
    ASSUME IInv, NEW p \in Procs, SendNotice(p), UNCHANGED <<posts, strayed>>
    PROVE  IInv'
<1> DEFINE r == proc[p]
           n == [r EXCEPT !.at = "record"]
<1>1. r.at = "send" /\ UNCHANGED <<env, store, offset, acked, batch, notice>>
  BY DEF SendNotice
<1>2. Shape(r) /\ ProcOK(p, r)  BY ProcIs
<1>3. r.at \notin Posting /\ r.at # "idle"  BY <1>1 DEF Posting
<1>4. CASE Event /\ Set(p, [r EXCEPT !.at = r.then]) /\ truth' = truth
  <2> DEFINE m == [r EXCEPT !.at = r.then]
  <2>1. /\ Shape(m) /\ ProcOK(p, m) /\ m.at \in {"reply", "log"} /\ m.update = r.update
        /\ p = "bot" /\ m.text # None /\ m.op \notin Reads /\ Talks(ChatOf(m.update)) /\ Settling(m)
           => OnRecord(m)
    BY <1>1, AfterNotice
  <2> HIDE DEF m
  <2>2. m.at \notin {"send", "record", "idle"} \cup Posting  BY <2>1 DEF Posting
  <2>3. Set(p, m)  BY <1>4 DEF m
  <2>4. events' \in 0 .. env.events  BY <1>4, EventKeeps DEF IInv
  <2> QED  BY <1>1, <1>3, <1>4, <2>1, <2>2, <2>3, <2>4, QuietStep
<1>5. CASE /\ Set(p, n) /\ events' = events
           /\ truth' = [truth EXCEPT !.doubled = @ \/ (notice = r.told /\ ~r.raced)]
  <2>1. /\ Shape(n) /\ n.at = "record" /\ n.update = r.update /\ n.op = r.op /\ n.arg = r.arg
        /\ n.text = r.text /\ n.then = r.then /\ n.told = r.told /\ n.raced = r.raced
    BY <1>2 DEF Shape
  <2>2. ~truth.doubled /\ ~(notice = r.told /\ ~r.raced)
    BY <1>1 DEF IInv, Noticed
  <2>3. /\ truth'.begun = truth.begun /\ truth'.settled = truth.settled /\ truth'.by = truth.by
        /\ truth'.warned = truth.warned /\ truth'.ruled = truth.ruled
        /\ truth'.doubled = FALSE /\ truth'.crashes = truth.crashes /\ TruthOK'
    <3> DEFINE d == truth.doubled \/ (notice = r.told /\ ~r.raced)
    <3>1. d = FALSE  BY <2>2
    <3>2. truth' = [truth EXCEPT !.doubled = d]  BY <1>5
    <3> HIDE DEF d
    <3>3. truth' = [truth EXCEPT !.doubled = FALSE]  BY <3>1, <3>2
    <3> QED  BY <1>1, <3>3 DEF TruthOK, Updates, IInv, Basics
  <2> HIDE DEF n
  <2>4. ProcOK(p, n)
    BY <1>1, <1>2, <2>1 DEF ProcOK, BotAts, ClientAts, Posting
  <2>5. ProcsOK' /\ proc'[p] = n /\ \A q \in Procs : q # p => proc'[q] = proc[q]
    BY <1>1, <1>5, <2>1, <2>4, SetKeeps DEF IInv, Basics
  <2>6. Basics'
    BY <1>1, <1>5, <2>3, <2>5 DEF IInv, Basics, StoreShape, StoreOK
  <2>7. /\ proc'["bot"].at = "idle" <=> proc["bot"].at = "idle"
        /\ proc'["bot"].update = proc["bot"].update /\ proc'["bot"].op = proc["bot"].op
        /\ proc'["bot"].text = proc["bot"].text
        /\ Settling(proc'["bot"]) => Settling(proc["bot"])
    BY <1>1, <2>1, <2>5, BotIsProc DEF Settling
  <2>8. Delivery'  BY <1>1, <2>3, <2>7, DeliveryFrame DEF IInv
  <2>9. Logged'  BY <1>1, <2>3, <2>7, LogFrame DEF IInv
  <2>10. NotesAreWhole' /\ ItemsMatch'  BY <1>1, <2>3, WholeFrame DEF IInv
  <2>11. Noticed'
    <3>1. \A q \in Procs : /\ Notifying(q)' <=> Notifying(q)
                           /\ proc'[q].raced = proc[q].raced /\ proc'[q].told = proc[q].told
                           /\ proc'[q].at = "send" => proc[q].at = "send"
      BY <1>1, <2>1, <2>5 DEF Notifying
    <3> QED  BY <1>1, <2>3, <3>1 DEF IInv, Noticed, Procs
  <2>12. Posted'
    <3>1. \A c \in Clients : proc'[c].at \in Posting \/ proc[c].at \in Posting
                              => proc'[c].at = proc[c].at /\ proc'[c].arg = proc[c].arg
      BY <1>1, <2>1, <2>5, BotIsProc DEF Posting
    <3> QED  BY <1>1, <3>1, PostFrame DEF IInv
  <2> QED  BY <2>6, <2>8, <2>9, <2>10, <2>11, <2>12 DEF IInv
<1> QED  BY <1>4, <1>5 DEF SendNotice

(* The notice is remembered.                                               *)
LEMMA RecordKeeps ==
    ASSUME IInv, NEW p \in Procs, RecordNotice(p), UNCHANGED <<posts, strayed>>
    PROVE  IInv'
<1> DEFINE r == proc[p]
           n == [r EXCEPT !.at = r.then]
<1>1. /\ r.at = "record" /\ notice' = r.told /\ Set(p, n)
      /\ UNCHANGED <<env, store, offset, acked, batch, events, truth>>
  BY DEF RecordNotice
<1>2. /\ Shape(n) /\ ProcOK(p, n) /\ n.at \in {"reply", "log"}
      /\ n.update = r.update /\ n.op = r.op /\ n.text = r.text /\ (Settling(n) => Settling(r))
  BY <1>1, AfterNotice
<1> HIDE DEF n
<1>3. ProcsOK' /\ proc'[p] = n /\ \A q \in Procs : q # p => proc'[q] = proc[q]
  BY <1>1, <1>2, SetKeeps DEF IInv, Basics
<1>4. Basics'
  BY <1>1, <1>3, TruthFrame DEF IInv, Basics, StoreShape, StoreOK
<1>5. /\ proc'["bot"].at = "idle" <=> proc["bot"].at = "idle"
      /\ proc'["bot"].update = proc["bot"].update /\ proc'["bot"].op = proc["bot"].op
      /\ proc'["bot"].text = proc["bot"].text
      /\ Settling(proc'["bot"]) => Settling(proc["bot"])
  BY <1>1, <1>2, <1>3, BotIsProc
<1>6. Delivery'  BY <1>1, <1>5, DeliveryFrame DEF IInv
<1>7. Logged'  BY <1>1, <1>5, LogFrame DEF IInv
<1>8. NotesAreWhole' /\ ItemsMatch'  BY <1>1, WholeFrame DEF IInv
<1>9. Noticed'
  <2>1. \A q \in Procs : Notifying(q)' => q # p /\ Notifying(q) /\ proc'[q] = proc[q]
    BY <1>2, <1>3 DEF Notifying
  <2>2. \A q \in Procs : Notifying(q)' => proc[q].raced
    BY <1>1, <2>1 DEF IInv, Noticed, Notifying
  <2>3. \A q \in Procs : proc'[q].at = "send" => Notifying(q)'  BY DEF Notifying
  <2> QED  BY <1>1, <2>1, <2>2, <2>3 DEF IInv, Noticed, Procs
<1>10. Posted'
  <2>1. \A c \in Clients : proc'[c].at \in Posting \/ proc[c].at \in Posting
                            => proc'[c].at = proc[c].at /\ proc'[c].arg = proc[c].arg
    BY <1>1, <1>2, <1>3, BotIsProc DEF Posting
  <2> QED  BY <1>1, <2>1, PostFrame DEF IInv
<1> QED  BY <1>4, <1>6, <1>7, <1>8, <1>9, <1>10 DEF IInv
-----------------------------------------------------------------------------
(* The posts.                                                              *)

(* What a step of a publishing call leaves alone.                          *)
LEMMA PostingRest ==
    ASSUME IInv, NEW c \in Clients, NEW at, at \in {"post", "save", "notify", "reply"},
           Set(c, [proc[c] EXCEPT !.at = at]), at \in Posting => proc[c].arg \in Approvals,
           proc[c].at \in {"look", "post", "save"},
           UNCHANGED <<env, offset, acked, batch, notice, truth>>,
           events' = events \/ Event, strayed' \subseteq Approvals,
           \/ store' = store
           \/ proc[c].arg \in Approvals /\ store' = [store EXCEPT !.published = @ \cup {proc[c].arg}]
    PROVE  /\ Basics' /\ Delivery' /\ Logged' /\ NotesAreWhole' /\ ItemsMatch' /\ Noticed'
           /\ proc'[c].at = at /\ proc'[c].arg = proc[c].arg
           /\ \A q \in Procs : q # c => proc'[q] = proc[q]
<1> DEFINE r == proc[c]
           n == [r EXCEPT !.at = at]
<1>1. c \in Procs /\ c # "bot"  BY BotIsProc
<1>2. Shape(r) /\ ProcOK(c, r)  BY <1>1, ProcIs
<1>3. /\ Shape(n) /\ n.at = at /\ n.update = r.update /\ n.op = r.op /\ n.arg = r.arg
      /\ n.text = r.text /\ n.then = r.then
  BY <1>2 DEF Shape
<1> HIDE DEF n
<1>4. ProcOK(c, n)
  BY <1>1, <1>2, <1>3 DEF ProcOK, BotAts, ClientAts, Posting
<1>5. ProcsOK' /\ proc'[c] = n /\ \A q \in Procs : q # c => proc'[q] = proc[q]
  BY <1>1, <1>3, <1>4, SetKeeps DEF IInv, Basics, n
<1>6. /\ StoreShape(store') /\ StoreOK(store') /\ store'.notes = store.notes /\ store'.room = store.room
      /\ store'.approval = store.approval /\ store'.proposals = store.proposals
      /\ store'.jobs = store.jobs
  <2>1. StoreShape(store) /\ StoreOK(store)  BY DEF IInv, Basics
  <2>2. CASE store' = store  BY <2>1, <2>2
  <2>3. CASE r.arg \in Approvals /\ store' = [store EXCEPT !.published = @ \cup {r.arg}]
    BY <2>1, <2>3 DEF StoreShape, StoreOK
  <2> QED  BY <2>2, <2>3
<1>7. events' \in 0 .. env.events  BY EventKeeps DEF IInv, Basics
<1>8. Basics'
  BY <1>5, <1>6, <1>7, TruthFrame DEF IInv, Basics, StoreShape, StoreOK
<1>9. proc'["bot"] = proc["bot"]  BY <1>1, <1>5, BotIsProc
<1>10. Delivery'  BY <1>9, DeliveryFrame DEF IInv
<1>11. Logged'  BY <1>6, <1>9, LogFrame DEF IInv
<1>12. NotesAreWhole' /\ ItemsMatch'
  BY <1>6 DEF IInv, NotesAreWhole, ItemsMatch, Items
<1>13. Noticed'  BY <1>3, <1>5, NoticeFrame DEF IInv
<1> QED  BY <1>3, <1>5, <1>8, <1>10, <1>11, <1>12, <1>13

(* Drafts of other approvals are not concerned.                            *)
LEMMA OthersPosted ==
    ASSUME IInv, NEW c \in Clients, proc'[c].arg = proc[c].arg,
           \A q \in Procs : q # c => proc'[q] = proc[q],
           NEW a \in Approvals, a # proc[c].arg, a \notin strayed,
           posts'[a] = posts[a], a \in store'.published <=> a \in store.published
    PROVE  OnePoster(a)'
<1>1. OnePoster(a)  BY DEF IInv, Posted
<1>2. Publishing(a)' = Publishing(a) /\ \A d \in Publishing(a) : proc'[d] = proc[d]
  BY BotIsProc DEF Publishing
<1> QED  BY <1>1, <1>2 DEF OnePoster

LEMMA LookAtKeeps ==
    ASSUME IInv, NEW c \in Clients, LookAtApproval(c)
    PROVE  IInv'
<1> DEFINE r == proc[c]
           ready == r.arg \in Approvals /\ store.approval[r.arg] = "approved" /\ r.arg \notin store.published
           at == IF ready THEN "post" ELSE "reply"
<1>1. /\ r.at = "look" /\ Set(c, [r EXCEPT !.at = at])
      /\ strayed' = IF ready /\ Publishing(r.arg) # {} THEN strayed \cup {r.arg} ELSE strayed
      /\ UNCHANGED <<env, store, offset, acked, batch, notice, events, truth, posts>>
  BY DEF LookAtApproval
<1>2. strayed' \subseteq Approvals /\ strayed \subseteq strayed'  BY <1>1 DEF IInv, Basics
<1>3. /\ Basics' /\ Delivery' /\ Logged' /\ NotesAreWhole' /\ ItemsMatch' /\ Noticed'
      /\ proc'[c].at = at /\ proc'[c].arg = r.arg
      /\ \A q \in Procs : q # c => proc'[q] = proc[q]
  BY <1>1, <1>2, PostingRest DEF Posting
<1>4. Posted'
  <2>1. ASSUME NEW a \in Approvals \ strayed' PROVE OnePoster(a)'
    <3>1. CASE a # r.arg  BY <1>1, <1>2, <1>3, <2>1, <3>1, OthersPosted
    <3>2. CASE a = r.arg /\ ready
      <4>1. Publishing(a) = {}  BY <1>1, <2>1, <3>2
      <4>2. OnePoster(a)  BY <1>2, <2>1 DEF IInv, Posted
      <4>3. posts[a] = 0  BY <3>2, <4>1, <4>2 DEF OnePoster
      <4>4. \A d \in Clients : d # c => proc'[d] = proc[d]  BY <1>3, BotIsProc
      <4>5. Publishing(a)' = {c} /\ proc'[c].at = "post"
        BY <1>3, <3>2, <4>1, <4>4 DEF Publishing
      <4> QED  BY <1>1, <4>3, <4>5 DEF OnePoster
    <3>3. CASE a = r.arg /\ ~ready
      <4>1. OnePoster(a)  BY <1>2, <2>1 DEF IInv, Posted
      <4>2. \A d \in Clients : d # c => proc'[d] = proc[d]  BY <1>3, BotIsProc
      <4>3. Publishing(a)' = Publishing(a) /\ \A d \in Publishing(a) : proc'[d] = proc[d]
        BY <1>1, <1>3, <3>3, <4>2 DEF Publishing
      <4> QED  BY <1>1, <4>1, <4>3 DEF OnePoster
    <3> QED  BY <3>1, <3>2, <3>3
  <2> QED  BY <1>1, <2>1 DEF IInv, Posted
<1> QED  BY <1>3, <1>4 DEF IInv

LEMMA PublishTextKeeps ==
    ASSUME IInv, NEW c \in Clients, PublishText(c)
    PROVE  IInv'
<1> DEFINE r == proc[c]
           more == [posts EXCEPT ![r.arg] = @ + 1]
<1>1. r.at = "post" /\ UNCHANGED <<env, store, offset, acked, batch, notice, truth>>
  BY DEF PublishText
<1>2. PICK at \in {"save", "reply"} :
        /\ Set(c, [r EXCEPT !.at = at]) /\ (events' = events \/ Event)
        /\ \/ at = "save" /\ posts' = more /\ strayed' = strayed
           \/ at = "reply" /\ posts' = posts /\ strayed' = strayed
           \/ at = "reply" /\ posts' = more /\ strayed' = strayed \cup {r.arg}
  BY DEF PublishText
<1>3. r.arg \in Approvals
  BY <1>1, BotIsProc, ProcIs DEF ProcOK, Posting
<1>4. strayed' \subseteq Approvals /\ strayed \subseteq strayed'  BY <1>2, <1>3 DEF IInv, Basics
<1>5. /\ Basics' /\ Delivery' /\ Logged' /\ NotesAreWhole' /\ ItemsMatch' /\ Noticed'
      /\ proc'[c].at = at /\ proc'[c].arg = r.arg
      /\ \A q \in Procs : q # c => proc'[q] = proc[q]
  BY <1>1, <1>2, <1>3, <1>4, PostingRest
<1>6. posts \in [Approvals -> Nat]  BY DEF IInv, Posted
<1>7. /\ posts' \in [Approvals -> Nat]
      /\ \A a \in Approvals : a # r.arg => posts'[a] = posts[a]
      /\ posts' = more => posts'[r.arg] = posts[r.arg] + 1
  BY <1>2, <1>3, <1>6
<1>8. ASSUME NEW a \in Approvals \ strayed' PROVE OnePoster(a)'
  <2>1. CASE a # r.arg  BY <1>1, <1>4, <1>5, <1>7, <1>8, <2>1, OthersPosted
  <2>2. CASE a = r.arg
    <3>1. OnePoster(a)  BY <1>4, <1>8 DEF IInv, Posted
    <3>2. c \in Publishing(a) /\ posts[a] = 0 /\ Publishing(a) = {c}
      BY <1>1, <2>2, <3>1 DEF Publishing, OnePoster
    <3>3. \A d \in Clients : d # c => proc'[d] = proc[d]  BY <1>5, BotIsProc
    <3>4. CASE at = "save"
      <4>1. Publishing(a)' = {c}
        BY <1>5, <2>2, <3>2, <3>3, <3>4 DEF Publishing
      <4>2. posts'[a] = 1  BY <1>2, <1>7, <2>2, <3>2, <3>4
      <4> QED  BY <1>5, <3>4, <4>1, <4>2 DEF OnePoster
    <3>5. CASE at = "reply"
      <4>1. Publishing(a)' = {}
        BY <1>5, <2>2, <3>2, <3>3, <3>5 DEF Publishing
      <4>2. posts'[a] = 0  BY <1>2, <1>8, <2>2, <3>2, <3>5
      <4> QED  BY <4>1, <4>2 DEF OnePoster
    <3> QED  BY <3>4, <3>5
  <2> QED  BY <2>1, <2>2
<1>9. Posted'  BY <1>7, <1>8 DEF Posted
<1> QED  BY <1>5, <1>9 DEF IInv

LEMMA RecordPostKeeps ==
    ASSUME IInv, NEW c \in Clients, RecordPost(c)
    PROVE  IInv'
<1> DEFINE r == proc[c]
<1>1. r.at = "save" /\ UNCHANGED <<env, offset, acked, batch, notice, truth, posts>>
  BY DEF RecordPost
<1>2. PICK at \in {"notify", "reply"} :
        /\ Set(c, [r EXCEPT !.at = at]) /\ (events' = events \/ Event)
        /\ \/ /\ at = "notify" /\ store' = [store EXCEPT !.published = @ \cup {r.arg}]
              /\ strayed' = strayed
           \/ at = "reply" /\ store' = store /\ strayed' = strayed \cup {r.arg}
  BY DEF RecordPost
<1>3. r.arg \in Approvals
  BY <1>1, BotIsProc, ProcIs DEF ProcOK, Posting
<1>4. strayed' \subseteq Approvals /\ strayed \subseteq strayed'  BY <1>2, <1>3 DEF IInv, Basics
<1>5. /\ Basics' /\ Delivery' /\ Logged' /\ NotesAreWhole' /\ ItemsMatch' /\ Noticed'
      /\ proc'[c].at = at /\ proc'[c].arg = r.arg
      /\ \A q \in Procs : q # c => proc'[q] = proc[q]
  BY <1>1, <1>2, <1>3, <1>4, PostingRest DEF Posting
<1>6. store'.published = IF at = "notify" THEN store.published \cup {r.arg} ELSE store.published
  BY <1>2 DEF IInv, Basics, StoreShape
<1>7. ASSUME NEW a \in Approvals \ strayed' PROVE OnePoster(a)'
  <2>1. CASE a # r.arg  BY <1>1, <1>4, <1>5, <1>6, <1>7, <2>1, OthersPosted
  <2>2. CASE a = r.arg
    <3>1. OnePoster(a)  BY <1>4, <1>7 DEF IInv, Posted
    <3>2. c \in Publishing(a) /\ posts[a] = 1 /\ Publishing(a) = {c}
      BY <1>1, <2>2, <3>1 DEF Publishing, OnePoster
    <3>3. \A d \in Clients : d # c => proc'[d] = proc[d]  BY <1>5, BotIsProc
    <3>4. at = "notify"  BY <1>2, <1>7, <2>2
    <3>5. Publishing(a)' = {}
      BY <1>5, <2>2, <3>2, <3>3, <3>4 DEF Publishing
    <3>6. a \in store'.published  BY <1>6, <2>2, <3>4
    <3> QED  BY <1>1, <3>2, <3>5, <3>6 DEF OnePoster
  <2> QED  BY <2>1, <2>2
<1>8. Posted'  BY <1>1, <1>7 DEF IInv, Posted
<1> QED  BY <1>5, <1>8 DEF IInv
-----------------------------------------------------------------------------
(* The inductive invariant.                                                *)
LEMMA InitHolds == Init => IInv
<1> SUFFICES ASSUME Init PROVE IInv  OBVIOUS
<1>1. /\ env \in Environments /\ store = EmptyStore /\ offset = 1 /\ acked = 1 /\ batch = << >>
      /\ proc = [p \in Procs |-> IdleProc] /\ notice = <<None>> /\ events = 0
      /\ truth = [begun |-> [u \in Updates |-> 0], settled |-> {}, by |-> [a \in Approvals |-> 0],
                  warned |-> {}, ruled |-> {}, doubled |-> FALSE, crashes |-> 0]
      /\ posts = [a \in Approvals |-> 0] /\ strayed = {}
  BY DEF Init, BotInit
<1>2. \A p \in Procs : proc[p] = IdleProc /\ IdleProc.at = "idle" /\ IdleProc.text = None
  BY <1>1 DEF IdleProc
<1>3. ProcsOK  BY <1>1, <1>2, IdleOK DEF ProcsOK
<1>4. StoreShape(store) /\ StoreOK(store) /\ store.notes = {} /\ store.room = {}
      /\ \A a \in Approvals : store.approval[a] = "pending"
  BY <1>1 DEF EmptyStore, StoreShape, StoreOK, JobStatus
<1>5. TruthOK  BY <1>1 DEF TruthOK
<1>6. env.events \in Nat /\ Len(env.inbox) \in Nat /\ Updates = 1 .. Len(env.inbox)
  BY <1>1, EnvironmentAssumption DEF Updates
<1>7. Basics  BY <1>1, <1>3, <1>4, <1>5, <1>6 DEF Basics
<1>8. Delivery
  <2>1. Below(1)  BY <1>6 DEF Below
  <2>2. batch \in Seq(Updates) /\ Len(batch) = 0  BY <1>1
  <2>3. \A v \in Updates : truth.begun[v] = 0  BY <1>1
  <2>4. truth.crashes = 0 /\ truth.settled = {} /\ \A a \in Approvals : truth.by[a] = 0  BY <1>1
  <2> QED  BY <1>1, <1>2, <1>6, <2>1, <2>2, <2>3, <2>4, BotIsProc DEF Delivery
<1>9. Logged  BY <1>2, BotIsProc DEF Logged
<1>10. NotesAreWhole /\ ItemsMatch  BY <1>4 DEF NotesAreWhole, ItemsMatch
<1>11. Noticed  BY <1>1, <1>2 DEF Noticed, Notifying
<1>12. Posted
  <2>1. \A a : Publishing(a) = {}  BY <1>2, BotIsProc DEF Publishing
  <2> QED  BY <1>1, <2>1 DEF Posted, OnePoster
<1> QED  BY <1>7, <1>8, <1>9, <1>10, <1>11, <1>12 DEF IInv

LEMMA StepHolds ==
    ASSUME IInv, NEW p \in Procs, Step(p), UNCHANGED <<posts, strayed>>
    PROVE  IInv'
<1>1. CASE Reply(p)  BY <1>1, ReplyKeeps
<1>2. CASE ActDone(p)  BY <1>2, ActDoneKeeps
<1>3. CASE ActFails(p)  BY <1>3, ActFailsKeeps
<1>4. CASE NoteKept(p)  BY <1>4, NoteKeptKeeps
<1>5. CASE NoteFails(p)  BY <1>5, NoteFailsKeeps
<1>6. CASE NoteDispatch(p)  BY <1>6, NoteDispatchKeeps
<1>7. CASE LookWhetherToTell(p)  BY <1>7, LookKeeps
<1>8. CASE SendNotice(p)  BY <1>8, SendKeeps
<1>9. CASE RecordNotice(p)  BY <1>9, RecordKeeps
<1> QED  BY <1>1, <1>2, <1>3, <1>4, <1>5, <1>6, <1>7, <1>8, <1>9 DEF Step

LEMMA NextHolds == IInv /\ [Next]_vars => IInv'
<1> SUFFICES ASSUME IInv, [Next]_vars PROVE IInv'  OBVIOUS
<1>1. CASE BotNext /\ UNCHANGED <<posts, strayed>>
  <2>1. CASE fetchUpdates \/ fetchFails  BY <1>1, <2>1, FetchKeeps
  <2>2. CASE TakeUpdate  BY <1>1, <2>2, TakeKeeps
  <2>3. CASE \E i \in Intents : Think(i)  BY <1>1, <2>3, ThinkKeeps
  <2>4. CASE Step("bot")  BY <1>1, <2>4, StepHolds, BotIsProc
  <2>5. CASE WindowPasses  BY <1>1, <2>5, WindowKeeps
  <2>6. CASE \E c \in Clients : Step(c)  BY <1>1, <2>6, StepHolds, BotIsProc
  <2>7. CASE \E c \in Clients : \E w \in env.requests : Request(c, w)
    BY <1>1, <2>7, RequestKeeps
  <2>8. CASE \E k \in Keys, status \in {"failed", "succeeded"} : JobEnds(k, status)
    BY <1>1, <2>8, JobEndsKeeps
  <2> QED
    BY <1>1, <2>1, <2>2, <2>3, <2>4, <2>5, <2>6, <2>7, <2>8 DEF BotNext, BotStep
<1>2. CASE Restart  BY <1>2, RestartKeeps
<1>3. CASE \E c \in Clients : LookAtApproval(c)  BY <1>3, LookAtKeeps
<1>4. CASE \E c \in Clients : PublishText(c)  BY <1>4, PublishTextKeeps
<1>5. CASE \E c \in Clients : RecordPost(c)  BY <1>5, RecordPostKeeps
<1>6. CASE UNCHANGED vars
  <2>1. /\ env' = env /\ store' = store /\ offset' = offset /\ acked' = acked /\ batch' = batch
        /\ proc' = proc /\ notice' = notice /\ events' = events /\ truth' = truth
        /\ posts' = posts /\ strayed' = strayed
    BY <1>6 DEF vars
  <2>2. ProcsOK'  BY <2>1, Static DEF IInv, Basics, ProcsOK, Shape, Procs
  <2>3. Basics'
    BY <2>1, <2>2, TruthFrame DEF IInv, Basics, StoreShape, StoreOK
  <2>4. Delivery' /\ Logged' /\ NotesAreWhole' /\ ItemsMatch' /\ Noticed' /\ Posted'
    BY <2>1, DeliveryFrame, LogFrame, WholeFrame, NoticeFrame, PostFrame DEF IInv
  <2> QED  BY <2>3, <2>4 DEF IInv
<1> QED  BY <1>1, <1>2, <1>3, <1>4, <1>5, <1>6 DEF Next

(* The tables, the loop, the notices and the posts stay as IInv says,      *)
(* whatever messages come and whatever fails.                              *)
THEOREM ChatInvariant == Spec => []IInv
<1>1. Init => IInv  BY InitHolds
<1>2. IInv /\ [Next]_vars => IInv'  BY NextHolds
<1> QED  BY <1>1, <1>2, PTL DEF Spec

LEMMA HandledFromInv == IInv => MessagesAreHandled
<1> SUFFICES ASSUME IInv PROVE MessagesAreHandled  OBVIOUS
<1> DEFINE b == proc["bot"]
<1>1. Shape(b) /\ ProcOK("bot", b)  BY BotIsProc, ProcIs
<1>2. TypeOK
  <2>1. \A i \in DOMAIN batch : batch[i] \in Updates  BY DEF IInv, Delivery
  <2>2. \A p \in Procs : /\ proc[p].at \in {"idle", "think", "act", "log", "talk", "dispatch", "notify",
                                           "send", "record", "look", "post", "save", "reply"}
                         /\ proc[p].update \in Updates \cup {0}
                         /\ proc[p].text \in Texts \cup {None}
    BY ProcIs DEF ProcOK, BotAts, ClientAts
  <2>3. truth.settled \subseteq Updates  BY DEF IInv, Basics, TruthOK
  <2> QED  BY <2>1, <2>2, <2>3 DEF TypeOK, IInv, Basics, Delivery
<1>3. NothingIsLost  BY DEF NothingIsLost, IInv, Delivery, Below
<1>4. FounderChatsOnly
  <2>1. ASSUME NEW u \in Updates PROVE env.inbox[u].chat # Unset
    BY <2>1, EnvironmentAssumption DEF IInv, Basics, Updates
  <2>2. b.at # "idle" => b.update \in Updates /\ ChatOf(b.update) = env.inbox[b.update].chat
    BY <1>1 DEF ProcOK, ChatOf
  <2>3. b.at \in {"think", "log", "talk", "dispatch"} => Talks(ChatOf(b.update))
    BY <1>1 DEF ProcOK
  <2>4. b.at = "act" => Route(ChatOf(b.update)) = "founder"
    BY <1>1 DEF ProcOK
  <2> QED  BY <2>1, <2>2, <2>3, <2>4, FounderRoutes, FounderTalks DEF FounderChatsOnly
<1> QED  BY <1>2, <1>3, <1>4 DEF MessagesAreHandled

(* For any chats, messages and faults: what Telegram's server was told to  *)
(* forget was handled to the end, in order, and only the chats the founder *)
(* configured change anything (startTelegramLoop, fetchUpdates).           *)
THEOREM MessagesStayHandled == Spec => []MessagesAreHandled
  BY ChatInvariant, HandledFromInv, PTL

LEMMA RecordFromInv == IInv => SaidIsOnRecord
<1> SUFFICES ASSUME IInv PROVE SaidIsOnRecord  OBVIOUS
<1>1. ActionsAreLogged
  BY DEF IInv, Logged, ActionsAreLogged, OnRecord, ChatOf, Settling
<1> QED  BY <1>1 DEF IInv, SaidIsOnRecord

(* For any texts and any failing saves: a note has all its words ask for,  *)
(* a rejection or a risk is in the room until the founder resolves it, and *)
(* an action read from free text leaves a note or a warning                *)
(* (createConversationNoteLocked, ResolveApproval,                         *)
(* appendFounderControlLog).                                               *)
THEOREM SaidStaysOnRecord == Spec => []SaidIsOnRecord
  BY ChatInvariant, RecordFromInv, PTL

LEMMA CauseFromInv == IInv => RepeatsHaveACause
<1> SUFFICES ASSUME IInv PROVE RepeatsHaveACause  OBVIOUS
<1> DEFINE b == proc["bot"]
<1>1. TakenAgainOnlyAfterCrash  BY DEF IInv, Delivery, TakenAgainOnlyAfterCrash
<1>2. OldDecisionOnlyReplayed
  <2> SUFFICES ASSUME b.at = "act", b.arg \in Approvals, truth.by[b.arg] > b.update
               PROVE  truth.begun[b.update] > 1
    BY DEF OldDecisionOnlyReplayed
  <2> DEFINE v == truth.by[b.arg]
  <2>1. b.update \in Updates  BY BotIsProc, ProcIs DEF ProcOK
  <2>2. Updates \subseteq Nat  BY EnvironmentAssumption DEF IInv, Basics, Updates
  <2>3. v \in Nat  BY DEF IInv, Basics, TruthOK
  <2>4. v > 0 /\ v \in Updates /\ truth.begun[v] > 0
    <3>1. b.update \in Nat /\ v > b.update  BY <2>1, <2>2
    <3>2. v > 0
      <4> HIDE DEF v
      <4> QED  BY <3>1, <2>3
    <3> QED  BY <3>2 DEF IInv, Delivery
  <2>5. b.update \in truth.settled
    BY <2>1, <2>2, <2>3, <2>4 DEF IInv, Delivery, Below
  <2> QED  BY <2>5 DEF IInv, Delivery
<1>3. NoticeNotRepeated  BY DEF IInv, Noticed, NoticeNotRepeated
<1>4. PostedOnce
  <2>1. \A a \in Approvals : posts[a] \in Nat  BY DEF IInv, Posted
  <2>2. \A a \in Approvals : a \notin strayed => posts[a] <= 1
    BY DEF IInv, Posted, OnePoster
  <2> QED  BY <2>1, <2>2 DEF PostedOnce
<1> QED  BY <1>1, <1>2, <1>3, <1>4 DEF RepeatsHaveACause

(* For any requests beside the loop: a message is taken again only after a *)
(* crash, an older decision follows a younger one only then, a notice is   *)
(* repeated within its window only when two calls overlap, and a draft     *)
(* goes out twice only for an overlap or a lost answer or record           *)
(* (fetchUpdates, ResolveApproval, maybeNotifyFounderAttention,            *)
(* PublishThreadsBrandDraft).                                              *)
THEOREM RepeatsKeepTheirCause == Spec => []RepeatsHaveACause
  BY ChatInvariant, CauseFromInv, PTL
=============================================================================
