------------------------ MODULE StealRefinement_proofs ------------------------
(* StealProtocol implements StealContract and its part of WorkloadLife, for  *)
(* any number of requests and stealers, as long as no two requests share a   *)
(* donor and a pod name, no call fails, no wait expires and no message is    *)
(* redelivered while a copy of it is held.                                   *)
EXTENDS StealRun_proofs

\* Of a message there is one copy: in a buffer, with a worker that has not
\* settled it, or with one that has, and then it is gone from the stream.
Buffered(s, r) == \E i \in 1..Len(inbox[s]) : inbox[s][i] = r
Working(s, r)  == worker[s].pc # "idle" /\ Msg(s) = r

MessageOK(r) ==
  /\ req[r].pc \in {"new", "offered"} => stream[r] = "none"
  /\ \A s, t \in Stealers : /\ Buffered(s, r) \/ Working(s, r)
                            /\ Buffered(t, r) \/ Working(t, r)
                            => s = t
  /\ \A s \in Stealers : Buffered(s, r) => stream[r] = "outstanding" /\ ~Working(s, r)
CopyOK(s) ==
  /\ worker[s].pc = "idle" => worker[s] = Idle
  /\ worker[s].pc # "idle" =>
       stream[Msg(s)] = IF worker[s].settled THEN "gone" ELSE "outstanding"
  /\ \A i, j \in 1..Len(inbox[s]) : inbox[s][i] = inbox[s][j] => i = j

\* The entry is the truth about its only request: who took the offer, who alone
\* may execute it, and what the donor was told.
EntryOK(r) ==
  /\ kv[Key(r)].owner = Pending => kv[Key(r)].rev = req[r].rev
  /\ req[r].rev = 0 => kv[Key(r)].owner = Pending
  /\ won[r] = IF kv[Key(r)].owner = Pending THEN {} ELSE {kv[Key(r)].owner}
  /\ ran[r] \subseteq won[r]
  /\ req[r].pc \in {"new", "offered", "waiting"} => req[r].by = Pending
  /\ req[r].by \in Stealers => kv[Key(r)].owner = req[r].by
OwnOK(s) ==
  /\ worker[s].pc = "claim" => Entry(s).owner = Pending /\ worker[s].rev = Entry(s).rev
  /\ worker[s].pc \in Claimed => Entry(s).owner = s

Messages == (\A r \in Requests : MessageOK(r)) /\ (\A s \in Stealers : CopyOK(s))
Entries  == (\A r \in Requests : EntryOK(r)) /\ (\A s \in Stealers : OwnOK(s))

SoleInv == /\ RunInv
           /\ left["slow"] = 0
           /\ Messages /\ Entries

\* Where no wait expires either, the donor keeps only pods it never offered.
LocalOK(r) == req[r].by = Local => req[r].rev = 0

RefInv == /\ SoleInv
          /\ left["expire"] = 0
          /\ \A r \in Requests : LocalOK(r)

------------------------------------------------------------------------------
(* Messages.                                                                 *)

\* Steps that move no message and start or end no handler.
LEMMA MessagesQuiet ==
  ASSUME SoleInv, UNCHANGED <<stream, inbox>>,
         \A r \in Requests : req'[r].pc \in {"new", "offered"} => req[r].pc \in {"new", "offered"},
         \A s \in Stealers : \/ worker'[s] = worker[s]
                             \/ /\ worker[s].pc # "idle" /\ worker'[s].pc # "idle"
                                /\ worker'[s].msg = worker[s].msg
                                /\ worker'[s].settled = worker[s].settled
  PROVE  Messages'
<1>1. \A s \in Stealers : \A r : Working(s, r)' <=> Working(s, r)
  BY DEF Working, Msg
<1>2. \A s \in Stealers : \A r : Buffered(s, r)' <=> Buffered(s, r)
  BY DEF Buffered
<1>3. \A r \in Requests : MessageOK(r)'
  BY <1>1, <1>2 DEF SoleInv, Messages, MessageOK
<1>4. \A s \in Stealers : CopyOK(s)'
  BY DEF SoleInv, Messages, CopyOK, Msg
<1> QED BY <1>3, <1>4 DEF Messages

\* A handler ends, with or without an acknowledgement.
LEMMA MessagesReturn ==
  ASSUME SoleInv, NEW s \in Stealers, worker[s].pc # "idle", Return(s),
         UNCHANGED <<req, inbox>>, UNCHANGED stream \/ Ack(Msg(s))
  PROVE  Messages'
<1>1. /\ Msg(s) \in Requests /\ worker \in [Stealers -> WorkerState]
      /\ stream \in [Requests -> MessageStates]
  BY DEF SoleInv, RunInv, Inv, Typed, TypeOK, Busy, Msg
<1>2. worker'[s] = Idle /\ \A t \in Stealers : t # s => worker'[t] = worker[t]
  BY <1>1 DEF Return
<1>3. \A t \in Stealers : \A r : Working(t, r)' => Working(t, r) /\ t # s
  BY <1>2 DEF Working, Msg, Idle
<1>4. \A t \in Stealers : \A r : Buffered(t, r)' <=> Buffered(t, r)
  BY DEF Buffered
<1>5. \A r \in Requests : r # Msg(s) => stream'[r] = stream[r]
  BY <1>1 DEF Ack
<1>6. Working(s, Msg(s)) /\ (\A t \in Stealers : ~Buffered(t, Msg(s)))
      /\ (\A t \in Stealers : Working(t, Msg(s)) => t = s)
  BY <1>1 DEF SoleInv, Messages, MessageOK, Working
<1>7. ASSUME NEW r \in Requests PROVE MessageOK(r)'
  <2>1. MessageOK(r) /\ CopyOK(s)
    BY DEF SoleInv, Messages
  <2>2. req[r].pc \in {"new", "offered"} => r # Msg(s)
    BY <1>1, <2>1 DEF MessageOK, CopyOK
  <2>3. Buffered(s, r)' \/ Working(s, r)' => Buffered(s, r)
    BY <1>3, <1>4
  <2> QED BY <1>3, <1>4, <1>5, <1>6, <2>1, <2>2 DEF MessageOK
<1>8. ASSUME NEW t \in Stealers PROVE CopyOK(t)'
  <2>1. CASE t = s
    BY <1>2, <2>1 DEF CopyOK, SoleInv, Messages, Idle
  <2>2. CASE t # s
    <3>1. worker[t].pc # "idle" => Msg(t) # Msg(s) /\ Msg(t) \in Requests
      BY <1>6, <2>2 DEF Working, Msg, SoleInv, RunInv, Inv, Typed, Busy
    <3>2. CopyOK(t)
      BY DEF SoleInv, Messages
    <3>3. worker'[t] = worker[t] /\ inbox'[t] = inbox[t]
      BY <1>2, <2>2
    <3>4. worker[t].pc # "idle" => stream'[worker[t].msg] = stream[worker[t].msg]
      BY <1>5, <3>1 DEF Msg
    <3> QED BY <3>2, <3>3, <3>4 DEF CopyOK, Msg
  <2> QED BY <2>1, <2>2
<1> QED BY <1>7, <1>8 DEF Messages

\* What the messages say of the types, and who holds what.
LEMMA Copies ==
  ASSUME SoleInv
  PROVE  /\ stream \in [Requests -> MessageStates] /\ req \in [Requests -> Handler]
         /\ inbox \in [Stealers -> Seq(Requests)] /\ worker \in [Stealers -> WorkerState]
         /\ \A s \in Stealers : worker[s].pc # "idle" => Msg(s) \in Requests
         /\ \A s \in Stealers : \A r \in Requests :
              /\ Buffered(s, r) => stream[r] = "outstanding"
              /\ Working(s, r) => stream[r] \in {"outstanding", "gone"}
<1>1. TypeOK /\ Busy
  BY DEF SoleInv, RunInv, Inv, Typed
<1>2. \A r \in Requests : MessageOK(r)
  BY DEF SoleInv, Messages
<1>3. \A s \in Stealers : CopyOK(s)
  BY DEF SoleInv, Messages
<1> QED BY <1>1, <1>2, <1>3 DEF TypeOK, Busy, Msg, MessageOK, CopyOK, Working

\* A message nobody holds goes into the stream, for the first time or again.
LEMMA MessagesReady ==
  ASSUME SoleInv, NEW m \in Requests, stream' = [stream EXCEPT ![m] = "ready"],
         UNCHANGED <<inbox, worker>>,
         \A s \in Stealers : ~Buffered(s, m) /\ ~Working(s, m),
         \A r \in Requests : req'[r].pc \in {"new", "offered"} =>
                               r # m /\ req[r].pc \in {"new", "offered"}
  PROVE  Messages'
<1>1. \A r \in Requests \ {m} : stream'[r] = stream[r]
  BY Copies
<1>2. \A s \in Stealers : \A r : /\ Working(s, r)' <=> Working(s, r)
                                 /\ Buffered(s, r)' <=> Buffered(s, r)
  BY DEF Working, Buffered, Msg
<1>3. \A r \in Requests : MessageOK(r)'
  BY <1>1, <1>2 DEF SoleInv, Messages, MessageOK
<1>4. ASSUME NEW s \in Stealers PROVE CopyOK(s)'
  <2>1. worker[s].pc # "idle" => Msg(s) \in Requests \ {m}
    BY Copies DEF Working
  <2> QED BY <1>1, <2>1 DEF SoleInv, Messages, CopyOK, Msg
<1> QED BY <1>3, <1>4 DEF Messages

LEMMA MessagesDeliver ==
  ASSUME SoleInv, NEW m \in Requests, NEW s \in Stealers, Deliver(m, s)
  PROVE  Messages'
<1>1. /\ stream[m] = "ready" /\ stream' = [stream EXCEPT ![m] = "outstanding"]
      /\ inbox' = [inbox EXCEPT ![s] = Append(@, m)] /\ UNCHANGED <<req, worker>>
  BY DEF Deliver, donorVars
<1>2. /\ stream'[m] = "outstanding" /\ \A r \in Requests \ {m} : stream'[r] = stream[r]
      /\ inbox'[s] = Append(inbox[s], m) /\ inbox[s] \in Seq(Requests)
      /\ \A t \in Stealers \ {s} : inbox'[t] = inbox[t]
  BY <1>1, Copies
<1>3. \A t \in Stealers : ~Buffered(t, m) /\ ~Working(t, m)
  BY <1>1, Copies
<1>4. \A t \in Stealers : \A r : Working(t, r)' <=> Working(t, r)
  BY <1>1 DEF Working, Msg
<1>5. \A t \in Stealers : \A r \in Requests \ {m} : Buffered(t, r)' => Buffered(t, r)
  <2> SUFFICES ASSUME NEW r \in Requests \ {m}, Buffered(s, r)' PROVE Buffered(s, r)
    BY <1>2 DEF Buffered
  <2>1. PICK i \in 1..Len(inbox'[s]) : inbox'[s][i] = r
    BY DEF Buffered
  <2>2. i \in 1..Len(inbox[s]) /\ inbox[s][i] = r
    BY <1>2, <2>1
  <2> QED BY <2>2 DEF Buffered
<1>6. \A t \in Stealers : Buffered(t, m)' => t = s
  BY <1>2, <1>3 DEF Buffered
<1>7. ASSUME NEW r \in Requests PROVE MessageOK(r)'
  <2>1. MessageOK(r)
    BY DEF SoleInv, Messages
  <2>2. CASE r = m
    <3>1. req'[m].pc \notin {"new", "offered"}
      BY <1>1, <2>1, <2>2 DEF MessageOK
    <3> QED BY <1>2, <1>3, <1>4, <1>6, <2>2, <3>1 DEF MessageOK
  <2>3. CASE r # m
    BY <1>1, <1>2, <1>4, <1>5, <2>1, <2>3 DEF MessageOK
  <2> QED BY <2>2, <2>3
<1>8. ASSUME NEW t \in Stealers PROVE CopyOK(t)'
  <2>1. CopyOK(t)
    BY DEF SoleInv, Messages
  <2>2. worker[t].pc # "idle" => Msg(t) \in Requests \ {m}
    BY <1>3, Copies DEF Working
  <2>3. ASSUME NEW i \in 1..Len(inbox'[t]), NEW j \in 1..Len(inbox'[t]),
               inbox'[t][i] = inbox'[t][j]
        PROVE  i = j
    <3>1. CASE t # s
      BY <1>2, <2>1, <2>3, <3>1 DEF CopyOK
    <3>2. CASE t = s
      <4>1. \A k \in 1..Len(inbox[s]) : inbox[s][k] # m /\ inbox'[s][k] = inbox[s][k]
        BY <1>2, <1>3 DEF Buffered
      <4>2. /\ Len(inbox'[s]) = Len(inbox[s]) + 1 /\ Len(inbox[s]) \in Nat
            /\ inbox'[s][Len(inbox[s]) + 1] = m
        BY <1>2
      <4>3. i \in 1..Len(inbox[s]) \/ i = Len(inbox[s]) + 1
        BY <3>2, <4>2
      <4>4. j \in 1..Len(inbox[s]) \/ j = Len(inbox[s]) + 1
        BY <3>2, <4>2
      <4>5. \A k, l \in 1..Len(inbox[s]) : inbox[s][k] = inbox[s][l] => k = l
        BY <2>1, <3>2 DEF CopyOK
      <4>6. inbox'[s][i] = inbox'[s][j]
        BY <2>3, <3>2
      <4> QED BY <4>1, <4>2, <4>3, <4>4, <4>5, <4>6
    <3> QED BY <3>1, <3>2
  <2> QED BY <1>1, <1>2, <2>1, <2>2, <2>3 DEF CopyOK, Msg
<1> QED BY <1>7, <1>8 DEF Messages

\* The worker takes its next copy out of the buffer, or sends it back.
LEMMA MessagesCheck ==
  ASSUME SoleInv, NEW s \in Stealers, CheckPod(s), ~Fault
  PROVE  Messages'
<1>0. inbox[s] \in Seq(Requests) /\ inbox[s] # <<>>
  BY Copies DEF CheckPod
<1> PICK m \in Requests : m = Head(inbox[s])
  BY <1>0
<1>1. /\ worker[s].pc = "idle" /\ inbox[s] # <<>> /\ UNCHANGED req
      /\ inbox' = [inbox EXCEPT ![s] = Tail(@)]
      /\ \/ /\ UNCHANGED stream
            /\ worker' = [worker EXCEPT ![s] = [Idle EXCEPT !.pc = "read", !.msg = m]]
         \/ Nak(m) /\ UNCHANGED worker
  BY DEF CheckPod, donorVars
<1>2. /\ inbox[s] \in Seq(Requests) /\ inbox'[s] = Tail(inbox[s])
      /\ \A t \in Stealers \ {s} : inbox'[t] = inbox[t] /\ worker'[t] = worker[t]
  BY <1>1, Copies
<1>3. /\ Len(inbox[s]) \in Nat /\ Len(inbox'[s]) = Len(inbox[s]) - 1
      /\ 1 \in 1..Len(inbox[s]) /\ inbox[s][1] = m
      /\ \A i \in 1..Len(inbox'[s]) : /\ i + 1 \in 1..Len(inbox[s])
                                      /\ inbox'[s][i] = inbox[s][i + 1]
  <2>1. Len(inbox[s]) \in Nat /\ Len(inbox[s]) > 0
    BY <1>0
  <2>2. Len(inbox'[s]) = Len(inbox[s]) - 1
    BY <1>0, <1>2
  <2>3. \A i \in 1..(Len(inbox[s]) - 1) : Tail(inbox[s])[i] = inbox[s][i + 1]
    BY <1>0
  <2> QED BY <1>0, <1>2, <2>1, <2>2, <2>3
<1>4. /\ Buffered(s, m) /\ stream[m] = "outstanding" /\ ~Working(s, m)
      /\ \A t \in Stealers : Buffered(t, m) \/ Working(t, m) => t = s
  <2>1. Buffered(s, m)
    BY <1>3 DEF Buffered
  <2> QED BY <1>3, <2>1 DEF SoleInv, Messages, MessageOK
<1>5. \A i, j \in 1..Len(inbox[s]) : inbox[s][i] = inbox[s][j] => i = j
  BY DEF SoleInv, Messages, CopyOK
<1>6. \A t \in Stealers : ~Buffered(t, m)'
  <2>1. ~Buffered(s, m)'
    BY <1>3, <1>5 DEF Buffered
  <2> QED BY <1>2, <1>4, <2>1 DEF Buffered
<1>7. \A t \in Stealers : \A r : Buffered(t, r)' => Buffered(t, r)
  <2> SUFFICES ASSUME NEW r, Buffered(s, r)' PROVE Buffered(s, r)
    BY <1>2 DEF Buffered
  <2> QED BY <1>3 DEF Buffered
<1>8. \A t \in Stealers : \A r \in Requests \ {m} : Working(t, r)' => Working(t, r)
  <2> SUFFICES ASSUME NEW r \in Requests \ {m}, Working(s, r)' PROVE Working(s, r)
    BY <1>2 DEF Working, Msg
  <2>1. UNCHANGED worker
    BY <1>1, Copies DEF Working, Msg, Idle
  <2> QED BY <2>1 DEF Working, Msg
<1>9. \A t \in Stealers : Working(t, m)' => t = s
  BY <1>2, <1>4 DEF Working, Msg
<1>10. \A r \in Requests \ {m} : stream'[r] = stream[r]
  BY <1>1, Copies DEF Nak
<1>11. ASSUME NEW r \in Requests PROVE MessageOK(r)'
  <2>1. MessageOK(r)
    BY DEF SoleInv, Messages
  <2>2. CASE r = m
    <3>1. req'[m].pc \notin {"new", "offered"}
      BY <1>1, <1>4, <2>1, <2>2 DEF MessageOK
    <3> QED BY <1>6, <1>9, <2>2, <3>1 DEF MessageOK
  <2>3. CASE r # m
    BY <1>1, <1>7, <1>8, <1>10, <2>1, <2>3 DEF MessageOK
  <2> QED BY <2>2, <2>3
<1>12. ASSUME NEW t \in Stealers PROVE CopyOK(t)'
  <2>1. CASE t # s
    <3>1. CopyOK(t) /\ (worker[t].pc # "idle" => Msg(t) \in Requests \ {m})
      BY <1>4, <2>1, Copies DEF SoleInv, Messages, Working
    <3>2. worker'[t] = worker[t] /\ inbox'[t] = inbox[t]
      BY <1>2, <2>1
    <3> QED BY <1>10, <3>1, <3>2 DEF CopyOK, Msg
  <2>2. CASE t = s
    <3>1. \A i, j \in 1..Len(inbox'[s]) : inbox'[s][i] = inbox'[s][j] => i = j
      <4> SUFFICES ASSUME NEW i \in 1..Len(inbox'[s]), NEW j \in 1..Len(inbox'[s]),
                          inbox'[s][i] = inbox'[s][j]
                   PROVE  i = j
        OBVIOUS
      <4>1. i + 1 = j + 1
        BY <1>3, <1>5
      <4> QED BY <4>1
    <3>2. CASE UNCHANGED stream /\ worker'[s] = [Idle EXCEPT !.pc = "read", !.msg = m]
      BY <1>4, <2>2, <3>1, <3>2 DEF CopyOK, Msg, Idle
    <3>3. CASE worker'[s] = worker[s]
      BY <1>1, <2>2, <3>1, <3>3 DEF CopyOK, SoleInv, Messages
    <3> QED BY <1>1, <3>2, <3>3, Copies
  <2> QED BY <2>1, <2>2
<1> QED BY <1>11, <1>12 DEF Messages

\* The claim's acknowledgement.
LEMMA MessagesAck ==
  ASSUME SoleInv, ~Fault, NEW s \in Stealers, AckClaim(s)
  PROVE  Messages'
<1> DEFINE m == Msg(s)
<1>1. /\ worker[s].pc = "ack" /\ UNCHANGED <<req, inbox>>
      /\ UNCHANGED stream \/ Ack(m)
      /\ worker'[s] = [worker[s] EXCEPT !.pc = "create", !.settled = TRUE]
      /\ \A t \in Stealers \ {s} : worker'[t] = worker[t]
  BY Copies DEF AckClaim, donorVars
<1>2. m \in Requests /\ Working(s, m) /\ worker[s] \in WorkerState
  BY <1>1, Copies DEF Working
<1>3. /\ \A t \in Stealers : ~Buffered(t, m)
      /\ \A t \in Stealers : Working(t, m) => t = s
  BY <1>2 DEF SoleInv, Messages, MessageOK
<1>4. stream'[m] = "gone" /\ \A r \in Requests \ {m} : stream'[r] = stream[r]
  <2>1. worker[s].settled => stream[m] = "gone"
    BY <1>1 DEF SoleInv, Messages, CopyOK
  <2>2. CASE worker[s].settled
    BY <2>1, <2>2 DEF AckClaim
  <2>3. CASE ~worker[s].settled
    BY <1>2, <2>3, Copies DEF AckClaim, Ack
  <2> QED BY <2>2, <2>3
<1>5. worker'[s].pc # "idle" /\ Msg(s)' = m
  BY <1>1, <1>2 DEF Msg, WorkerState
<1>6. \A t \in Stealers : \A r : /\ Working(t, r)' <=> Working(t, r)
                                 /\ Buffered(t, r)' <=> Buffered(t, r)
  <2>1. \A r : Working(s, r)' <=> Working(s, r)
    BY <1>1, <1>5 DEF Working
  <2>2. \A t \in Stealers \ {s} : \A r : Working(t, r)' <=> Working(t, r)
    BY <1>1 DEF Working, Msg
  <2> QED BY <1>1, <2>1, <2>2 DEF Buffered
<1>7. ASSUME NEW r \in Requests PROVE MessageOK(r)'
  <2>1. MessageOK(r) /\ (req[r].pc \in {"new", "offered"} => r # m)
    <3>1. stream[m] \in {"outstanding", "gone"}
      BY <1>2, Copies
    <3> QED BY <3>1 DEF SoleInv, Messages, MessageOK
  <2> QED BY <1>1, <1>3, <1>4, <1>6, <2>1 DEF MessageOK
<1>8. ASSUME NEW t \in Stealers PROVE CopyOK(t)'
  <2>1. CopyOK(t)
    BY DEF SoleInv, Messages
  <2>2. CASE t = s
    <3>1. worker'[s].settled
      BY <1>1, <1>2 DEF WorkerState
    <3> QED BY <1>1, <1>4, <1>5, <2>1, <2>2, <3>1 DEF CopyOK
  <2>3. CASE t # s
    <3>1. worker[t].pc # "idle" => Msg(t) \in Requests \ {m}
      BY <1>3, <2>3, Copies DEF Working
    <3>2. worker'[t] = worker[t] /\ inbox'[t] = inbox[t]
      BY <1>1, <2>3
    <3> QED BY <1>4, <2>1, <3>1, <3>2 DEF CopyOK, Msg
  <2> QED BY <2>2, <2>3
<1> QED BY <1>7, <1>8 DEF Messages

LEMMA MessagesCrash == ASSUME SoleInv, NEW s \in Stealers, Crash(s) PROVE Messages'
<1>1. /\ UNCHANGED <<req, stream>> /\ worker'[s] = Idle /\ inbox'[s] = <<>>
      /\ \A t \in Stealers \ {s} : worker'[t] = worker[t] /\ inbox'[t] = inbox[t]
  BY Copies DEF Crash, Return, donorVars, brokerVars
<1>2. \A r : ~Working(s, r)' /\ ~Buffered(s, r)'
  BY <1>1 DEF Working, Buffered, Idle
<1>3. \A t \in Stealers : \A r : /\ Working(t, r)' => Working(t, r)
                                 /\ Buffered(t, r)' => Buffered(t, r)
  BY <1>1, <1>2 DEF Working, Buffered, Msg
<1>4. \A r \in Requests : MessageOK(r)'
  BY <1>1, <1>2, <1>3 DEF SoleInv, Messages, MessageOK
<1>5. ASSUME NEW t \in Stealers PROVE CopyOK(t)'
  <2>1. CASE t = s
    BY <1>1, <2>1 DEF CopyOK, Idle
  <2>2. CASE t # s
    BY <1>1, <2>2 DEF SoleInv, Messages, CopyOK, Msg
  <2> QED BY <2>1, <2>2
<1> QED BY <1>4, <1>5 DEF Messages

\* What the budget rules out.
LEMMA Ruled ==
  ASSUME SoleInv, Next
  PROVE  ~Fault /\ ~Spend("slow") /\ left'["slow"] = 0
  BY NoFault, UsedUp DEF SoleInv, RunInv, Inv, Kinds

LEMMA MessagesHandler ==
  ASSUME SoleInv, Next, NEW r \in Requests, HandlerStep(r) \/ WebhookTimeout(r)
  PROVE  Messages'
<1> USE DEF brokerVars, clusterVars, historyVars
<1>1. req \in [Requests -> Handler] /\ req[r] \in Handler
  BY Copies
<1>2. CASE PublishOffer(r)
  <2>1. \A s \in Stealers : ~Buffered(s, r) /\ ~Working(s, r)
    <3>1. stream[r] = "none"
      BY <1>2 DEF PublishOffer, SoleInv, Messages, MessageOK
    <3> QED BY <3>1, Copies
  <2>2. /\ stream' = [stream EXCEPT ![r] = "ready"] /\ UNCHANGED <<inbox, worker>>
        /\ req'[r].pc = "waiting" /\ \A q \in Requests \ {r} : req'[q] = req[q]
    BY <1>1, <1>2 DEF PublishOffer, Handler
  <2> QED BY <2>1, <2>2, MessagesReady
<1>3. ASSUME ~PublishOffer(r) PROVE Messages'
  <2>1. UNCHANGED <<stream, inbox, worker>>
    BY <1>3, Ruled DEF HandlerStep, PassThrough, ConnectFails, PutPending, PutFails, LabelPanic,
       PublishFails, PollStolen, WaitExpires, PollFails, Respond, WebhookTimeout
  <2>2. \A q \in Requests \ {r} : req'[q] = req[q]
    BY <1>1, <1>3 DEF HandlerStep, PassThrough, ConnectFails, PutPending, PutFails, LabelPanic,
       PublishFails, PollStolen, WaitExpires, PollFails, Respond, WebhookTimeout, Decide
  <2>3. req'[r].pc \in {"new", "offered"} => req[r].pc \in {"new", "offered"}
    <3>1. CASE PutPending(r) \/ LabelPanic(r)
      BY <3>1 DEF PutPending, LabelPanic, Arrives
    <3>2. CASE Respond(r) \/ (\E who : Decide(r, who))
      BY <1>1, <3>2 DEF Respond, Decide, Handler
    <3>3. CASE WebhookTimeout(r)
      BY <1>1, <3>3 DEF WebhookTimeout, Handler
    <3> QED BY <1>3, <3>1, <3>2, <3>3 DEF HandlerStep, PassThrough, ConnectFails, PutFails,
               PublishFails, PollStolen, WaitExpires, PollFails
  <2> QED BY <2>1, <2>2, <2>3, MessagesQuiet
<1> QED BY <1>2, <1>3

LEMMA MessagesWorker ==
  ASSUME SoleInv, Next, NEW s \in Stealers, WorkerStep(s)
  PROVE  Messages'
<1> USE DEF donorVars, brokerVars, clusterVars, historyVars
<1>1. /\ worker \in [Stealers -> WorkerState] /\ worker[s] \in WorkerState
      /\ ~Fault
  BY Copies, Ruled
<1>2. CASE CheckPod(s)
  BY <1>1, <1>2, MessagesCheck
<1>3. CASE AckClaim(s)
  BY <1>1, <1>3, MessagesAck
<1>4. ASSUME ~CheckPod(s), ~AckClaim(s), Return(s) PROVE Messages'
  <2>1. /\ worker[s].pc # "idle" /\ UNCHANGED <<req, inbox>>
        /\ UNCHANGED stream \/ Ack(Msg(s))
    BY <1>1, <1>4 DEF WorkerStep, Reading, ReadOpen, ReadOwn, ReadTaken, ReadFails, Claiming,
       Claim, LoseClaim, ClaimFails, CreatePod, WaitRunning, AckAgain, CreateService,
       ExportService, Publishing, PublishDetails, RetryPublish, PublishDetailsFails
  <2> QED BY <1>4, <2>1, MessagesReturn
<1>5. ASSUME ~CheckPod(s), ~AckClaim(s), ~Return(s) PROVE Messages'
  <2>1. worker[s].pc # "idle" /\ UNCHANGED <<req, stream, inbox>>
    BY <1>1, <1>5 DEF WorkerStep, Reading, ReadOpen, ReadOwn, ReadTaken, ReadFails, Claiming,
       Claim, LoseClaim, ClaimFails, CreatePod, WaitRunning, AckAgain, CreateService,
       ExportService, Publishing, PublishDetails, RetryPublish, PublishDetailsFails
  <2>2. \A t \in Stealers \ {s} : worker'[t] = worker[t]
    BY <1>1, <1>5 DEF WorkerStep, ReadOpen, ReadOwn, ReadTaken, ReadFails,
       Claim, LoseClaim, ClaimFails, CreatePod, WaitRunning, AckAgain, CreateService,
       ExportService, PublishDetails, RetryPublish, PublishDetailsFails, Goto, Stolen
  <2>3. /\ worker'[s].pc # "idle" /\ worker'[s].msg = worker[s].msg
        /\ worker'[s].settled = worker[s].settled
    <3>1. CASE ReadOpen(s) \/ ReadOwn(s)
      BY <1>1, <3>1 DEF ReadOpen, ReadOwn, WorkerState
    <3>2. CASE Claim(s) \/ LoseClaim(s)
      BY <1>1, <3>2 DEF Claim, LoseClaim, Goto, WorkerState
    <3>3. CASE CreatePod(s) \/ WaitRunning(s)
      BY <1>1, <3>3 DEF CreatePod, WaitRunning, Goto, Stolen, WorkerState
    <3>4. CASE CreateService(s) \/ ExportService(s)
      BY <1>1, <1>5, <3>4 DEF CreateService, ExportService, Goto, WorkerState
    <3>5. CASE RetryPublish(s)
      BY <1>1, <1>5, <3>5 DEF RetryPublish, Publishing, WorkerState
    <3> QED BY <1>1, <1>5, <3>1, <3>2, <3>3, <3>4, <3>5 DEF WorkerStep, ReadTaken, ReadFails,
               ClaimFails, AckAgain, PublishDetails, PublishDetailsFails
  <2> QED BY <2>1, <2>2, <2>3, MessagesQuiet
<1> QED BY <1>2, <1>3, <1>4, <1>5

LEMMA MessagesStep == ASSUME SoleInv, Next PROVE Messages'
<1> USE DEF donorVars, brokerVars, clusterVars, historyVars
<1>1. ASSUME NEW r \in Requests, AckWaitExpires(r) PROVE Messages'
  <2>1. ~HeldCopy(r) /\ stream[r] = "outstanding" /\ UNCHANGED <<req, inbox, worker>>
        /\ stream' = [stream EXCEPT ![r] = "ready"]
    BY <1>1, Ruled DEF AckWaitExpires
  <2>2. ASSUME NEW s \in Stealers PROVE ~Buffered(s, r) /\ ~Working(s, r)
    <3>1. ~Buffered(s, r)
      BY <2>1 DEF HeldCopy, Buffered
    <3>2. Working(s, r) => worker[s].settled /\ stream[r] = "gone"
      BY <2>1 DEF HeldCopy, Working, Msg, SoleInv, Messages, CopyOK
    <3> QED BY <2>1, <3>1, <3>2
  <2>3. req[r].pc \notin {"new", "offered"}
    BY <2>1 DEF SoleInv, Messages, MessageOK
  <2> QED BY <2>1, <2>2, <2>3, MessagesReady
<1>2. ASSUME NEW d \in Donors, DonorCrash(d) PROVE Messages'
  <2>1. UNCHANGED <<stream, inbox, worker>>
    BY <1>2 DEF DonorCrash
  <2>2. ASSUME NEW r \in Requests
        PROVE  req'[r].pc \in {"new", "offered"} => req[r].pc \in {"new", "offered"}
    <3>1. req'[r] = req[r] \/ req'[r] = [req[r] EXCEPT !.pc = "done", !.open = FALSE]
      BY <1>2 DEF DonorCrash
    <3>2. req[r] \in Handler
      BY Copies
    <3> QED BY <3>1, <3>2 DEF Handler
  <2> QED BY <2>1, <2>2, MessagesQuiet
<1>3. ASSUME UNCHANGED <<req, stream, inbox, worker>> PROVE Messages'
  BY <1>3, MessagesQuiet
<1> QED BY <1>1, <1>2, <1>3, MessagesHandler, MessagesWorker, MessagesDeliver, MessagesCrash
        DEF Next, ProtocolStep, DonorPodDeleted, PodStarts, PodEnds, PodDeleted, SetPod

------------------------------------------------------------------------------
(* Entries.                                                                  *)

\* Types, and what tells one entry from another.
LEMMA Truths ==
  ASSUME SoleInv, NEW r \in Requests
  PROVE  /\ Typed /\ OfferOK(r) /\ EntryOK(r) /\ Key(r) \in Keys
         /\ kv \in [Keys -> StealerDetails] /\ kv[Key(r)].owner \in Owners
         /\ kv[Key(r)].rev \in Nat /\ req[r].rev \in Nat
         /\ req \in [Requests -> Handler] /\ req[r] \in Handler
         /\ won \in [Requests -> SUBSET Stealers] /\ ran \in [Requests -> SUBSET Stealers]
<1>1. Inv /\ Typed /\ TypeOK
  BY DEF SoleInv, RunInv, Inv, Typed
<1>2. kv[Key(r)] \in StealerDetails /\ Key(r) \in Keys
  BY <1>1, KeyType DEF TypeOK
<1> QED BY <1>1, <1>2, Revisions DEF Inv, TypeOK, StealerDetails, SoleInv, Entries

\* Steps that write no entry and start no pod.
LEMMA EntriesQuiet ==
  ASSUME SoleInv, UNCHANGED <<kv, won, ran>>,
         \A r \in Requests : req'[r].rev = req[r].rev,
         \A r \in Requests : req'[r].pc \in {"new", "offered", "waiting"} =>
                               /\ req[r].pc \in {"new", "offered", "waiting"}
                               /\ req'[r].by = req[r].by,
         \A r \in Requests : \/ req'[r].by = req[r].by
                             \/ req'[r].by = Local
                             \/ kv[Key(r)].owner = req'[r].by,
         \A s \in Stealers : \/ worker'[s] = worker[s]
                             \/ worker'[s].pc \in {"idle", "read"}
                             \/ /\ Msg(s)' = Msg(s)
                                /\ worker'[s].pc = "claim" =>
                                     Entry(s).owner = Pending /\ worker'[s].rev = Entry(s).rev
                                /\ worker'[s].pc \in Claimed => Entry(s).owner = s
  PROVE  Entries'
<1>1. ASSUME NEW r \in Requests PROVE EntryOK(r)'
  <2>1. EntryOK(r)
    BY Truths
  <2>2. Local \notin Stealers /\ Pending # Local
    BY OwnersAssumption
  <2>3. Local \notin Owners
    BY <2>2 DEF Owners
  <2>4. kv[Key(r)].owner \in Owners
    BY Truths
  <2> QED BY <2>1, <2>2, <2>3, <2>4 DEF EntryOK
<1>2. ASSUME NEW s \in Stealers PROVE OwnOK(s)'
  <2>1. OwnOK(s)
    BY DEF SoleInv, Entries
  <2> QED BY <2>1 DEF OwnOK, Entry, Msg, Claimed
<1> QED BY <1>1, <1>2 DEF Entries

\* A put by the webhook: the entry is new, nobody works on it.
LEMMA EntriesPut ==
  ASSUME SoleInv, UniqueNames, NEW r \in Requests, PutPending(r)
  PROVE  Entries'
<1> USE DEF historyVars
<1>1. /\ req[r].pc = "new" /\ req'[r].by = req[r].by
      /\ req'[r].rev = kv[Key(r)].rev + 1 /\ UNCHANGED <<worker, won, ran>>
      /\ \A q \in Requests \ {r} : req'[q] = req[q]
  BY Truths DEF PutPending, Arrives, Handler
<1>2. kv'[Key(r)] = [owner |-> Pending, rev |-> kv[Key(r)].rev + 1, fqdn |-> FALSE]
  BY Truths DEF PutPending, PutOffer
<1>3. \A q \in Requests \ {r} : kv'[Key(q)] = kv[Key(q)]
  BY Truths DEF PutPending, PutOffer, UniqueNames
<1>4. ASSUME NEW q \in Requests PROVE EntryOK(q)'
  <2>1. CASE q = r
    <3>1. /\ OfferOK(r) /\ EntryOK(r) /\ kv[Key(r)].rev \in Nat /\ won[r] = {}
          /\ req[r].by = Pending /\ Pending \notin Stealers /\ Pending # Local
      BY <1>1, Truths, OwnersAssumption DEF OfferOK, EntryOK
    <3>2. kv'[Key(r)].owner = Pending /\ kv'[Key(r)].rev = req'[r].rev /\ req'[r].rev # 0
      BY <1>1, <1>2, <3>1
    <3> QED BY <1>1, <2>1, <3>1, <3>2 DEF EntryOK
  <2>2. CASE q # r
    <3>1. EntryOK(q) /\ req'[q] = req[q] /\ kv'[Key(q)] = kv[Key(q)]
      BY <1>1, <1>3, <2>2, Truths
    <3> QED BY <1>1, <3>1 DEF EntryOK
  <2> QED BY <2>1, <2>2
<1>5. ASSUME NEW s \in Stealers PROVE OwnOK(s)'
  <2>1. worker[s].pc # "idle" => Msg(s) \in Requests \ {r}
    <3>1. worker[s].pc # "idle" => Msg(s) \in Requests /\ req[Msg(s)].rev > 0
      BY Copies DEF SoleInv, RunInv, Inv, WorkerOK
    <3>2. req[r].rev = 0
      BY <1>1, Truths DEF OfferOK
    <3> QED BY <3>1, <3>2
  <2>2. OwnOK(s)
    BY DEF SoleInv, Entries
  <2> QED BY <1>1, <1>3, <2>1, <2>2 DEF OwnOK, Entry, Msg, Claimed
<1> QED BY <1>4, <1>5 DEF Entries

\* No other worker works on the entry of worker s.
LEMMA OthersElsewhere ==
  ASSUME SoleInv, UniqueNames, NEW s \in Stealers, worker[s].pc # "idle",
         NEW t \in Stealers \ {s}, worker[t].pc # "idle"
  PROVE  Msg(t) \in Requests /\ Key(Msg(t)) # Key(Msg(s))
<1>1. Msg(s) \in Requests /\ Msg(t) \in Requests
  BY Copies
<1>2. Working(s, Msg(s)) /\ Working(t, Msg(t))
  BY DEF Working
<1>3. Msg(s) # Msg(t)
  BY <1>1, <1>2 DEF SoleInv, Messages, MessageOK
<1> QED BY <1>1, <1>3 DEF UniqueNames

\* What a worker does to the entry it works on leaves the others alone.
LEMMA EntriesWorker ==
  ASSUME SoleInv, UniqueNames, NEW s \in Stealers, worker[s].pc # "idle",
         NEW m \in Requests, Msg(s) = m, UNCHANGED req,
         \A r \in Requests \ {m} : /\ kv'[Key(r)] = kv[Key(r)]
                                   /\ won'[r] = won[r] /\ ran'[r] = ran[r],
         \A t \in Stealers \ {s} : worker'[t] = worker[t],
         EntryOK(m)', OwnOK(s)'
  PROVE  Entries'
<1>1. ASSUME NEW r \in Requests \ {m} PROVE EntryOK(r)'
  <2>1. /\ EntryOK(r) /\ kv'[Key(r)] = kv[Key(r)]
        /\ won'[r] = won[r] /\ ran'[r] = ran[r] /\ req'[r] = req[r]
    BY Truths
  <2> QED BY <2>1 DEF EntryOK
<1>2. ASSUME NEW t \in Stealers \ {s} PROVE OwnOK(t)'
  <2>1. OwnOK(t) /\ worker'[t] = worker[t]
    BY DEF SoleInv, Entries
  <2>2. ASSUME worker[t].pc # "idle" PROVE Entry(t)' = Entry(t)
    <3>1. Msg(t) \in Requests /\ Key(Msg(t)) # Key(m)
      BY <2>2, OthersElsewhere
    <3> QED BY <2>1, <3>1 DEF Entry, Msg
  <2> QED BY <2>1, <2>2 DEF OwnOK, Claimed
<1> QED BY <1>1, <1>2 DEF Entries

LEMMA EntriesClaim ==
  ASSUME SoleInv, UniqueNames, NEW s \in Stealers, Claim(s)
  PROVE  Entries' /\ Taken(s) = {Msg(s)}
<1> PICK m \in Requests : m = Msg(s)
  BY Copies DEF Claim, Claiming
<1>1. /\ worker[s].pc = "claim" /\ TakeOffer(s) /\ UNCHANGED <<req, ran>>
      /\ worker \in [Stealers -> WorkerState] /\ worker[s] \in WorkerState
      /\ worker'[s] = [worker[s] EXCEPT !.pc = "ack"]
      /\ \A t \in Stealers \ {s} : worker'[t] = worker[t]
  BY Copies DEF Claim, Claiming, Goto, donorVars
<1>2. /\ kv[Key(m)].owner = Pending /\ worker[s].rev = kv[Key(m)].rev
      /\ EntryOK(m) /\ OfferOK(m) /\ kv[Key(m)].rev = req[m].rev /\ req[m].rev > 0
  <2>1. kv[Key(m)].owner = Pending /\ worker[s].rev = kv[Key(m)].rev
    BY <1>1 DEF SoleInv, Entries, OwnOK, Entry
  <2>2. req[m].rev > 0
    BY <1>1 DEF SoleInv, RunInv, Inv, WorkerOK
  <2>3. EntryOK(m) /\ OfferOK(m)
    BY Truths
  <2> QED BY <2>1, <2>2, <2>3 DEF EntryOK
<1>3. Taken(s) = {m}
  BY <1>2, Truths DEF Taken, UniqueNames
<1>4. kv'[Key(m)] = [owner |-> s, rev |-> kv[Key(m)].rev + 1, fqdn |-> FALSE]
  BY <1>1, Truths DEF TakeOffer, WriteOwn
<1>5. \A r \in Requests \ {m} : /\ kv'[Key(r)] = kv[Key(r)]
                                /\ won'[r] = won[r] /\ ran'[r] = ran[r]
  BY <1>1, <1>3, Truths DEF TakeOffer, WriteOwn, UniqueNames
<1>6. won'[m] = won[m] \cup {s}
  BY <1>1, <1>3 DEF TakeOffer
<1>7. EntryOK(m)'
  <2>1. Pending \notin Stealers
    BY OwnersAssumption
  <2>2. won[m] = {} /\ ran[m] \subseteq {} /\ req[m].by \notin Stealers
    BY <1>2, <2>1 DEF EntryOK
  <2>3. /\ req'[m] = req[m] /\ ran'[m] = ran[m] /\ won'[m] = {s}
        /\ kv'[Key(m)].owner = s /\ kv'[Key(m)].owner # Pending
    BY <1>1, <1>4, <1>6, <2>1, <2>2
  <2> QED BY <1>2, <2>2, <2>3 DEF EntryOK
<1>8. OwnOK(s)'
  <2>1. worker'[s].pc = "ack" /\ Msg(s)' = m
    BY <1>1 DEF WorkerState, Msg
  <2> QED BY <1>4, <2>1 DEF OwnOK, Entry
<1>9. Entries'
  BY <1>1, <1>5, <1>7, <1>8, EntriesWorker
<1> QED BY <1>3, <1>9

\* A pod is created by the owner of the entry.
LEMMA EntriesMake ==
  ASSUME SoleInv, UniqueNames, NEW s \in Stealers, worker[s].pc = "create", MakePod(s),
         UNCHANGED <<req, kv, won>>, Goto(s, "wait")
  PROVE  Entries' /\ won[Msg(s)] = {s}
<1> PICK m \in Requests : m = Msg(s)
  BY Copies
<1>1. kv[Key(m)].owner = s
  BY DEF SoleInv, Entries, OwnOK, Entry, Claimed
<1>2. won[m] = {s} /\ EntryOK(m)
  BY <1>1, Truths, OwnersAssumption DEF EntryOK
<1>3. ran'[m] = ran[m] \cup {s} /\ \A r \in Requests \ {m} : ran'[r] = ran[r]
  BY Truths DEF MakePod
<1>4. EntryOK(m)'
  <2>1. /\ req'[m] = req[m] /\ won'[m] = won[m] /\ kv'[Key(m)] = kv[Key(m)]
        /\ ran'[m] \subseteq won[m]
    BY <1>2, <1>3 DEF EntryOK
  <2> QED BY <1>2, <2>1 DEF EntryOK
<1>5. /\ worker'[s].pc = "wait" /\ worker'[s].msg = m
      /\ \A t \in Stealers \ {s} : worker'[t] = worker[t]
  BY Copies DEF Goto, WorkerState, Msg
<1>6. OwnOK(s)'
  BY <1>1, <1>5 DEF OwnOK, Entry, Msg
<1>7. Entries'
  BY <1>3, <1>4, <1>5, <1>6, EntriesWorker
<1> QED BY <1>2, <1>7

LEMMA EntriesPublish ==
  ASSUME SoleInv, UniqueNames, NEW s \in Stealers, PublishDetails(s)
  PROVE  Entries'
<1> USE DEF historyVars, donorVars
<1> PICK m \in Requests : m = Msg(s)
  BY Copies DEF PublishDetails, Publishing
<1>1. /\ worker[s].pc = "publish" /\ UNCHANGED <<req, won, ran>>
      /\ worker'[s] = Idle /\ \A t \in Stealers \ {s} : worker'[t] = worker[t]
      /\ WriteOwn(s, worker[s].exposed)
  BY Copies DEF PublishDetails, Publishing, Return
<1>2. kv[Key(m)].owner = s /\ EntryOK(m)
  BY <1>1, Truths DEF SoleInv, Entries, OwnOK, Entry, Claimed
<1>3. kv'[Key(m)].owner = s
  BY <1>1, Truths DEF WriteOwn
<1>4. \A r \in Requests \ {m} : kv'[Key(r)] = kv[Key(r)]
  BY <1>1, Truths DEF WriteOwn, UniqueNames
<1>5. EntryOK(m)'
  BY <1>1, <1>2, <1>3, OwnersAssumption DEF EntryOK
<1>6. OwnOK(s)'
  BY <1>1 DEF OwnOK, Idle, Claimed
<1> QED BY <1>1, <1>4, <1>5, <1>6, EntriesWorker

LEMMA EntriesHandler ==
  ASSUME SoleInv, UniqueNames, Next, NEW r \in Requests, HandlerStep(r) \/ WebhookTimeout(r)
  PROVE  Entries'
<1> USE DEF brokerVars, clusterVars, historyVars
<1>1. req \in [Requests -> Handler] /\ req[r] \in Handler /\ OfferOK(r)
  BY Truths
<1>2. CASE PutPending(r)
  BY <1>2, EntriesPut
<1>3. ASSUME ~PutPending(r) PROVE Entries'
  <2>1. UNCHANGED <<kv, worker, won, ran>>
    BY <1>3, Ruled DEF HandlerStep, PassThrough, ConnectFails, PutFails, LabelPanic,
       PublishOffer, PublishFails, PollStolen, WaitExpires, PollFails, Respond, WebhookTimeout
  <2>2. \A q \in Requests \ {r} : req'[q] = req[q]
    BY <1>1, <1>3 DEF HandlerStep, PassThrough, ConnectFails, PutFails, LabelPanic, PublishOffer,
       PublishFails, PollStolen, WaitExpires, PollFails, Respond, WebhookTimeout, Decide
  <2>3. /\ req'[r].rev = req[r].rev
        /\ req'[r].pc \in {"new", "offered", "waiting"} =>
             req[r].pc \in {"new", "offered", "waiting"} /\ req'[r].by = req[r].by
        /\ \/ req'[r].by = req[r].by
           \/ req'[r].by = Local
           \/ kv[Key(r)].owner = req'[r].by
    <3>1. CASE PassThrough(r) \/ ConnectFails(r) \/ WaitExpires(r)
      <4>1. Decide(r, Local)
        BY <3>1 DEF PassThrough, ConnectFails, WaitExpires
      <4> QED BY <1>1, <4>1 DEF Decide, Handler
    <3>2. CASE PollStolen(r)
      BY <1>1, <3>2 DEF PollStolen, Decide, Handler
    <3>3. CASE LabelPanic(r) \/ PublishOffer(r)
      BY <1>1, <3>3 DEF LabelPanic, PublishOffer, Handler
    <3>4. CASE Respond(r)
      BY <1>1, <3>4 DEF Respond, Handler
    <3>5. CASE WebhookTimeout(r)
      BY <1>1, <3>5 DEF WebhookTimeout, Handler
    <3> QED BY <1>3, <3>1, <3>2, <3>3, <3>4, <3>5, Ruled DEF HandlerStep, PutFails, PublishFails,
               PollFails
  <2> QED BY <2>1, <2>2, <2>3, EntriesQuiet
<1> QED BY <1>2, <1>3

LEMMA EntriesWorkerStep ==
  ASSUME SoleInv, UniqueNames, Next, NEW s \in Stealers, WorkerStep(s)
  PROVE  Entries'
<1> USE DEF donorVars, brokerVars, clusterVars, historyVars
<1>1. /\ worker \in [Stealers -> WorkerState] /\ worker[s] \in WorkerState
      /\ ~Fault /\ OwnOK(s)
  BY Copies, Ruled DEF SoleInv, Entries
<1>2. CASE Claim(s)
  BY <1>2, EntriesClaim
<1>3. CASE CreatePod(s) /\ MakePod(s)
  <2>1. worker[s].pc = "create" /\ UNCHANGED <<req, kv, won>> /\ Goto(s, "wait")
    BY <1>1, <1>3 DEF CreatePod, MakePod
  <2> QED BY <1>3, <2>1, EntriesMake
<1>4. CASE PublishDetails(s)
  BY <1>4, EntriesPublish
<1>5. ~LoseClaim(s)
  BY <1>1 DEF LoseClaim, Claiming, OwnOK, AtRevision
<1>6. ASSUME ~Claim(s), ~(CreatePod(s) /\ MakePod(s)), ~PublishDetails(s) PROVE Entries'
  <2>1. UNCHANGED <<req, kv, won, ran>>
    BY <1>1, <1>5, <1>6 DEF WorkerStep, CheckPod, Reading, ReadOpen, ReadOwn, ReadTaken, ReadFails,
       ClaimFails, AckClaim, CreatePod, WaitRunning, AckAgain, CreateService,
       ExportService, Publishing, RetryPublish, PublishDetailsFails
  <2>2. \A t \in Stealers \ {s} : worker'[t] = worker[t]
    BY <1>1, <1>5, <1>6 DEF WorkerStep, CheckPod, ReadOpen, ReadOwn, ReadTaken, ReadFails,
       ClaimFails, AckClaim, CreatePod, WaitRunning, AckAgain, CreateService,
       ExportService, RetryPublish, PublishDetailsFails, Goto, Stolen, Return
  <2> DEFINE Follows == \/ worker'[s] = worker[s]
                        \/ worker'[s].pc \in {"idle", "read"}
                        \/ /\ Msg(s)' = Msg(s)
                           /\ worker'[s].pc = "claim" =>
                                Entry(s).owner = Pending /\ worker'[s].rev = Entry(s).rev
                           /\ worker'[s].pc \in Claimed => Entry(s).owner = s
  <2>3. CASE CheckPod(s)
    <3>1. worker'[s] = worker[s] \/ worker'[s].pc = "read"
      BY <1>1, <2>3 DEF CheckPod, Idle
    <3> HIDE DEF Follows
    <3>2. Follows
      BY <3>1 DEF Follows
    <3> QED BY <2>1, <2>2, <3>2, EntriesQuiet DEF Follows
  <2>4. CASE Return(s)
    <3>1. worker'[s].pc = "idle"
      BY <1>1, <2>4 DEF Return, Idle
    <3> QED BY <2>1, <2>2, <3>1, EntriesQuiet
  <2>5. CASE ReadOpen(s)
    <3>1. /\ worker'[s].pc = "claim" /\ Msg(s)' = Msg(s)
          /\ Entry(s).owner = Pending /\ worker'[s].rev = Entry(s).rev
      BY <1>1, <2>5 DEF ReadOpen, WorkerState, Msg
    <3> QED BY <2>1, <2>2, <3>1, EntriesQuiet DEF Claimed
  <2>6. ASSUME ~CheckPod(s), ~Return(s), ~ReadOpen(s) PROVE Entries'
    <3>1. Entry(s).owner = s
      BY <1>1, <1>5, <1>6, <2>6 DEF WorkerStep, ReadOwn, ReadTaken, ReadFails, ClaimFails,
         AckClaim, CreatePod, WaitRunning, AckAgain, CreateService, ExportService,
         Publishing, RetryPublish, PublishDetailsFails, OwnOK, Claimed
    <3>2. Msg(s)' = Msg(s) /\ worker'[s].pc # "claim"
      <4>1. CASE ReadOwn(s)
        BY <1>1, <4>1 DEF ReadOwn, WorkerState, Msg
      <4>2. CASE AckClaim(s) \/ CreatePod(s) \/ WaitRunning(s)
        BY <1>1, <4>2 DEF AckClaim, CreatePod, WaitRunning, Goto, Stolen, WorkerState, Msg
      <4>3. CASE CreateService(s) \/ ExportService(s)
        BY <1>1, <2>6, <4>3 DEF CreateService, ExportService, Goto, WorkerState, Msg
      <4>4. CASE RetryPublish(s)
        BY <1>1, <2>6, <4>4 DEF RetryPublish, Publishing, WorkerState, Msg
      <4> QED BY <1>1, <1>5, <1>6, <2>6, <4>1, <4>2, <4>3, <4>4 DEF WorkerStep, ReadTaken,
                 ReadFails, ClaimFails, AckAgain, PublishDetailsFails
    <3> QED BY <2>1, <2>2, <3>1, <3>2, EntriesQuiet
  <2> QED BY <2>3, <2>4, <2>5, <2>6
<1> QED BY <1>2, <1>3, <1>4, <1>6

LEMMA EntriesStep == ASSUME SoleInv, UniqueNames, Next PROVE Entries'
<1> USE DEF donorVars, brokerVars, clusterVars, historyVars
<1>1. ASSUME NEW d \in Donors, DonorCrash(d) PROVE Entries'
  <2>1. UNCHANGED <<kv, worker, won, ran>>
    BY <1>1 DEF DonorCrash
  <2>2. ASSUME NEW r \in Requests
        PROVE  /\ req'[r].rev = req[r].rev /\ req'[r].by = req[r].by
               /\ req'[r].pc \in {req[r].pc, "done"}
    <3>1. req'[r] = req[r] \/ req'[r] = [req[r] EXCEPT !.pc = "done", !.open = FALSE]
      BY <1>1 DEF DonorCrash
    <3>2. req[r] \in Handler
      BY Copies
    <3> QED BY <3>1, <3>2 DEF Handler
  <2> QED BY <2>1, <2>2, EntriesQuiet
<1>2. ASSUME NEW s \in Stealers, Crash(s) PROVE Entries'
  <2>1. /\ UNCHANGED <<req, kv, won, ran>> /\ worker'[s].pc = "idle"
        /\ \A t \in Stealers \ {s} : worker'[t] = worker[t]
    BY <1>2, Copies DEF Crash, Return, Idle
  <2> QED BY <2>1, EntriesQuiet
<1>3. ASSUME UNCHANGED <<req, kv, worker, won, ran>> PROVE Entries'
  BY <1>3, EntriesQuiet
<1> QED BY <1>1, <1>2, <1>3, EntriesHandler, EntriesWorkerStep
        DEF Next, ProtocolStep, AckWaitExpires, Deliver, DonorPodDeleted,
            PodStarts, PodEnds, PodDeleted, SetPod

LEMMA SoleInvInit == ASSUME Init, RunInv, Budget["slow"] = 0 PROVE SoleInv
<1>1. left["slow"] = 0
  BY DEF Init
<1>2. \A r \in Requests : MessageOK(r)
  BY DEF Init, MessageOK, Buffered, Working, Idle
<1>3. \A s \in Stealers : CopyOK(s)
  BY DEF Init, CopyOK, Idle
<1>4. \A r \in Requests : EntryOK(r)
  BY KeyType, OwnersAssumption DEF Init, EntryOK
<1>5. \A s \in Stealers : OwnOK(s)
  BY DEF Init, OwnOK, Idle, Claimed
<1> QED BY <1>1, <1>2, <1>3, <1>4, <1>5 DEF SoleInv, Messages, Entries

LEMMA SoleInvStep == ASSUME UniqueNames, SoleInv, [Next]_vars PROVE SoleInv'
<1>1. RunInv'
  BY RunInvStep DEF SoleInv
<1>2. CASE Next
  BY <1>1, <1>2, Ruled, MessagesStep, EntriesStep DEF SoleInv
<1>3. CASE UNCHANGED vars
  <2>1. Messages' /\ Entries'
    BY <1>3, MessagesQuiet, EntriesQuiet DEF vars
  <2> QED BY <1>1, <1>3, <2>1 DEF SoleInv, vars
<1> QED BY <1>2, <1>3

LEMMA SoleInvAlways ==
  ASSUME UniqueNames, Budget["fault"] = 0, Budget["slow"] = 0
  PROVE  Spec => []SoleInv
<1>1. Init => SoleInv
  BY RunInit, SoleInvInit
<1>2. SoleInv /\ [Next]_vars => SoleInv'
  BY SoleInvStep
<1> QED BY <1>1, <1>2, PTL DEF Spec

\* At most one stealer makes a pod of a message, whichever processes crash and
\* whoever gives up waiting, among requests with names of their own; as long
\* as no call fails and no copy a stealer still holds is redelivered.
THEOREM ProcessedOnceTheorem ==
  ASSUME UniqueNames, Budget["fault"] = 0, Budget["slow"] = 0
  PROVE  Spec => []ProcessedOnce
<1>1. SoleInv => ProcessedOnce
  BY DEF SoleInv, Entries, EntryOK, ProcessedOnce
<1> QED BY <1>1, SoleInvAlways, PTL

\* Under the same conditions the stealer named in the webhook's answer is the
\* one whose claim took the offer, and the only one that executes the pod.
THEOREM AnswerNamesThiefTheorem ==
  ASSUME UniqueNames, Budget["fault"] = 0, Budget["slow"] = 0
  PROVE  Spec => []AnswerNamesThief
<1>1. SoleInv => AnswerNamesThief
  BY OwnersAssumption DEF SoleInv, Entries, EntryOK, AnswerNamesThief
<1> QED BY <1>1, SoleInvAlways, PTL

\* Each entry has one request, one offer and one owner: a put finds it unused, a
\* claim finds it open, a publication finds the publisher's own name in it.
LEMMA OwnerStays ==
  ASSUME SoleInv, UniqueNames, Next, NEW k \in Keys, kv[k].owner \in Stealers
  PROVE  kv'[k].owner = kv[k].owner
<1> USE DEF donorVars, brokerVars, clusterVars, historyVars
<1>1. /\ ~Fault /\ Pending \notin Stealers /\ kv \in [Keys -> StealerDetails]
      /\ \A s \in Stealers : worker[s].pc # "idle" => Msg(s) \in Requests
  BY Ruled, Copies, OwnersAssumption DEF SoleInv, RunInv, Inv, Typed, TypeOK
<1>2. ASSUME NEW r \in Requests, PutPending(r) PROVE Key(r) # k
  <2>1. kv[Key(r)].owner = Pending
    BY <1>2, Truths DEF PutPending, Arrives, OfferOK, EntryOK
  <2> QED BY <1>1, <2>1
<1>3. ASSUME NEW r \in Requests, HandlerStep(r) PROVE kv'[k] = kv[k]
  <2>1. UNCHANGED kv \/ (PutPending(r) /\ PutOffer(r))
    BY <1>1, <1>3 DEF HandlerStep, PassThrough, ConnectFails, PutPending, PutFails, LabelPanic,
       PublishOffer, PublishFails, PollStolen, WaitExpires, PollFails, Respond
  <2> QED BY <1>1, <1>2, <2>1 DEF PutOffer
<1>4. ASSUME NEW s \in Stealers, WorkerStep(s) PROVE kv'[k].owner = kv[k].owner
  <2>1. OwnOK(s)
    BY DEF SoleInv, Entries
  <2>2. \/ UNCHANGED kv
        \/ worker[s].pc = "claim" /\ WriteOwn(s, FALSE)
        \/ worker[s].pc = "publish" /\ WriteOwn(s, worker[s].exposed)
    BY <1>1, <1>4 DEF WorkerStep, CheckPod, Reading, ReadOpen, ReadOwn, ReadTaken,
       ReadFails, Claiming, Claim, LoseClaim, ClaimFails, TakeOffer, AckClaim, CreatePod,
       WaitRunning, AckAgain, CreateService, ExportService, Publishing, PublishDetails,
       RetryPublish, PublishDetailsFails
  <2>3. CASE worker[s].pc = "claim" /\ WriteOwn(s, FALSE)
    <3>1. kv[Key(Msg(s))].owner = Pending
      BY <2>1, <2>3 DEF OwnOK, Entry
    <3> QED BY <1>1, <2>3, <3>1 DEF WriteOwn
  <2>4. CASE worker[s].pc = "publish" /\ WriteOwn(s, worker[s].exposed)
    <3>1. kv[Key(Msg(s))].owner = s
      BY <2>1, <2>4 DEF OwnOK, Claimed, Entry
    <3> QED BY <1>1, <2>4, <3>1 DEF WriteOwn
  <2> QED BY <2>2, <2>3, <2>4
<1> QED BY <1>3, <1>4 DEF Next, ProtocolStep, WebhookTimeout, AckWaitExpires, DonorCrash,
           DonorPodDeleted, Deliver, PodStarts, PodEnds, PodDeleted, SetPod, Crash

\* Under the same conditions an entry never changes hands.
THEOREM OwnerKeptTheorem ==
  ASSUME UniqueNames, Budget["fault"] = 0, Budget["slow"] = 0
  PROVE  Spec => OwnerKept
<1>1. SoleInv /\ [Next]_vars =>
        [\A k \in Keys : kv[k].owner \in Stealers => kv'[k].owner = kv[k].owner]_vars
  BY OwnerStays
<1> QED BY <1>1, SoleInvAlways, PTL DEF Spec, OwnerKept

\* A webhook that has named a stealer does not change its mind.
LEMMA AnswerStays ==
  ASSUME SoleInv, [Next]_vars, NEW r \in Requests, req[r].by \in Stealers
  PROVE  req'[r].by = req[r].by
<1>1. req[r] \in Handler /\ req \in [Requests -> Handler] /\ EntryOK(r) /\ Typed
  BY Truths
<1>2. req[r].pc \notin {"new", "offered", "waiting"}
  BY <1>1, OwnersAssumption DEF EntryOK
<1>3. CASE HandlerStep(r)
  <2>1. Respond(r)
    BY <1>2, <1>3 DEF HandlerStep, PassThrough, ConnectFails, PutPending, PutFails, LabelPanic,
       PublishOffer, PublishFails, PollStolen, WaitExpires, PollFails, Arrives
  <2> QED BY <1>1, <2>1 DEF Respond, Handler
<1>4. CASE Next
  <2>1. \/ req'[r] = req[r]
        \/ HandlerStep(r)
        \/ req'[r] = [req[r] EXCEPT !.open = FALSE]
        \/ req'[r] = [req[r] EXCEPT !.pc = "done", !.open = FALSE]
    BY <1>1, <1>4, RequestMoves
  <2> QED BY <1>1, <1>3, <2>1 DEF Handler
<1>5. CASE UNCHANGED vars
  BY <1>5 DEF vars
<1> QED BY <1>4, <1>5

------------------------------------------------------------------------------
(* The refinement.                                                           *)

LEMMA NoExpiry == ASSUME RefInv, Next PROVE ~Spend("expire") /\ left'["expire"] = 0
  BY UsedUp DEF RefInv, SoleInv, RunInv, Inv, Kinds

LEMMA LocalStep == ASSUME RefInv, Next, NEW r \in Requests PROVE LocalOK(r)'
<1>1. /\ SoleInv /\ LocalOK(r) /\ req \in [Requests -> Handler] /\ req[r] \in Handler
      /\ OfferOK(r) /\ kv[Key(r)].owner \in Owners /\ EntryOK(r)
      /\ Pending # Local /\ Local \notin Owners
  BY Truths, OwnersAssumption DEF RefInv, Owners
<1>2. CASE PassThrough(r) \/ ConnectFails(r)
  <2>1. req'[r].rev = 0
    BY <1>1, <1>2 DEF PassThrough, ConnectFails, Arrives, Decide, OfferOK, Handler
  <2> QED BY <2>1 DEF LocalOK
<1>3. CASE PutPending(r) \/ PollStolen(r)
  <2>1. req'[r].by # Local
    BY <1>1, <1>3 DEF PutPending, Arrives, PollStolen, Decide, EntryOK, Handler
  <2> QED BY <2>1 DEF LocalOK
<1>4. ASSUME req'[r].by = req[r].by, req'[r].rev = req[r].rev PROVE LocalOK(r)'
  BY <1>1, <1>4 DEF LocalOK
<1>5. CASE LabelPanic(r) \/ PublishOffer(r) \/ Respond(r)
  <2>1. req'[r].by = req[r].by /\ req'[r].rev = req[r].rev
    BY <1>1, <1>5 DEF LabelPanic, PublishOffer, Respond, Handler
  <2> QED BY <1>4, <2>1
<1>6. CASE HandlerStep(r)
  BY <1>1, <1>2, <1>3, <1>5, <1>6, Ruled, NoExpiry
     DEF HandlerStep, PutFails, PublishFails, WaitExpires, PollFails
<1> QED BY <1>1, <1>4, <1>6, RequestMoves DEF SoleInv, RunInv, Inv, Handler

LEMMA RefInvStep == ASSUME UniqueNames, RefInv, [Next]_vars PROVE RefInv'
<1>1. SoleInv'
  BY SoleInvStep DEF RefInv
<1>2. CASE Next
  BY <1>1, <1>2, NoExpiry, LocalStep DEF RefInv
<1>3. CASE UNCHANGED vars
  BY <1>1, <1>3 DEF RefInv, LocalOK, vars
<1> QED BY <1>2, <1>3

LEMMA RefInvInit ==
  ASSUME Init, Budget["fault"] = 0, Budget["slow"] = 0, Budget["expire"] = 0
  PROVE  RefInv
<1>1. SoleInv
  BY RunInit, SoleInvInit
<1> QED BY <1>1 DEF RefInv, Init, LocalOK

LEMMA ChosenIs ==
  ASSUME NEW r \in Requests
  PROVE  /\ \A s \in Stealers : won[r] = {s} => Chosen(r) = s
         /\ won[r] = {} => Chosen(r) = IF req[r].by = Local THEN Local ELSE Pending
  BY DEF Chosen

LEMMA NextChosenIs ==
  ASSUME NEW r \in Requests
  PROVE  /\ \A s \in Stealers : won'[r] = {s} => Chosen(r)' = s
         /\ won'[r] = {} => Chosen(r)' = IF req'[r].by = Local THEN Local ELSE Pending
  BY DEF Chosen

\* What the contract sees of a request: its winner, its pod and its answer.
Runs(r) == req[r].by = Local /\ req[r].pc = "done" /\ req[r].open
Unseen(r) == /\ won'[r] = won[r] /\ ran'[r] = ran[r] /\ req'[r].by = req[r].by
             /\ Runs(r)' <=> Runs(r)

LEMMA UnseenMaps ==
  ASSUME NEW r, Unseen(r)
  PROVE  Chosen(r)' = Chosen(r) /\ RunsIn(r)' = RunsIn(r) /\ req'[r].by = req[r].by
  BY DEF Unseen, Runs, Chosen, RunsIn

LEMMA StutterMaps ==
  ASSUME \A r \in Requests : Unseen(r) PROVE UNCHANGED Contract!contractVars
  BY UnseenMaps DEF Contract!contractVars

\* A step of which the contract sees one request.
LEMMA ChooseMaps ==
  ASSUME NEW r \in Requests, \A q \in Requests \ {r} : Unseen(q),
         NEW c \in Stealers \cup {Local}, Chosen(r) = Pending, Chosen(r)' = c,
         RunsIn(r)' = RunsIn(r), req'[r].by = req[r].by
  PROVE  Contract!ContractNext
<1>1. Contract!Choose(r, c)
  BY UnseenMaps DEF Contract!Choose
<1> QED BY <1>1 DEF Contract!ContractNext

LEMMA ChooseAndAnswerMaps ==
  ASSUME NEW r \in Requests, \A q \in Requests \ {r} : Unseen(q),
         Chosen(r) = Pending, Chosen(r)' = Local,
         RunsIn(r)' = RunsIn(r), req'[r].by = Local
  PROVE  Contract!ContractNext
<1>1. Contract!ChooseAndAnswer(r, Local)
  BY UnseenMaps DEF Contract!ChooseAndAnswer
<1> QED BY <1>1 DEF Contract!ContractNext

LEMMA AnswerMaps ==
  ASSUME NEW r \in Requests, \A q \in Requests \ {r} : Unseen(q),
         Chosen(r) # Pending, req[r].by = Pending, Chosen(r)' = Chosen(r),
         RunsIn(r)' = RunsIn(r), req'[r].by = Chosen(r)
  PROVE  Contract!ContractNext
<1>1. Contract!Answer(r)
  BY UnseenMaps DEF Contract!Answer
<1> QED BY <1>1 DEF Contract!ContractNext

LEMMA RunMaps ==
  ASSUME NEW r \in Requests, \A q \in Requests \ {r} : Unseen(q),
         Chosen(r) # Pending, Chosen(r)' = Chosen(r),
         RunsIn(r)' = RunsIn(r) \cup {Chosen(r)}, req'[r].by = req[r].by
  PROVE  Contract!ContractNext
<1>1. Contract!Run(r)
  BY UnseenMaps DEF Contract!Run
<1> QED BY <1>1 DEF Contract!ContractNext

LEMMA HandlerMaps ==
  ASSUME RefInv, Next, NEW r \in Requests, HandlerStep(r) \/ WebhookTimeout(r)
  PROVE  [Contract!ContractNext]_(Contract!contractVars)
<1> USE DEF brokerVars, clusterVars, historyVars
<1> SoleInv
  BY DEF RefInv
<1>1. /\ req \in [Requests -> Handler] /\ req[r] \in Handler /\ OfferOK(r) /\ EntryOK(r)
      /\ LocalOK(r) /\ kv[Key(r)].owner \in Owners
      /\ Pending \notin Stealers /\ Local \notin Stealers /\ Pending # Local
  BY Truths, OwnersAssumption DEF RefInv
<1>2. UNCHANGED <<won, ran>> /\ \A q \in Requests \ {r} : req'[q] = req[q]
  BY <1>1 DEF HandlerStep, PassThrough, ConnectFails, PutPending, PutFails, LabelPanic, PublishOffer,
     PublishFails, PollStolen, WaitExpires, PollFails, Respond, WebhookTimeout, Decide
<1>3. \A q \in Requests \ {r} : Unseen(q)
  BY <1>2 DEF Unseen, Runs
<1>4. CASE PassThrough(r) \/ ConnectFails(r)
  <2>1. req[r].pc = "new" /\ req'[r].pc = "decided" /\ req'[r].by = Local
    BY <1>1, <1>4 DEF PassThrough, ConnectFails, Arrives, Decide, Handler
  <2>2. won[r] = {} /\ req[r].by = Pending
    BY <1>1, <2>1 DEF OfferOK, EntryOK
  <2>3. Chosen(r) = Pending /\ Chosen(r)' = Local
    BY <1>1, <1>2, <2>1, <2>2, ChosenIs, NextChosenIs
  <2>4. RunsIn(r)' = RunsIn(r)
    BY <1>1, <1>2, <2>1, <2>2 DEF RunsIn
  <2> QED BY <1>3, <2>1, <2>3, <2>4, ChooseAndAnswerMaps
<1>5. CASE PollStolen(r)
  <2>1. /\ req[r].pc = "waiting" /\ kv[Key(r)].owner \in Stealers
        /\ req'[r].by = kv[Key(r)].owner
    BY <1>1, <1>5 DEF PollStolen, Decide, Handler, Owners
  <2>2. won[r] = {kv[Key(r)].owner} /\ req[r].by = Pending
    BY <1>1, <2>1 DEF EntryOK
  <2>3. Chosen(r) = kv[Key(r)].owner /\ Chosen(r)' = kv[Key(r)].owner
    BY <1>2, <2>1, <2>2, ChosenIs, NextChosenIs
  <2>4. RunsIn(r)' = RunsIn(r)
    BY <1>1, <1>2, <2>1, <2>2 DEF RunsIn
  <2> QED BY <1>1, <1>3, <2>1, <2>2, <2>3, <2>4, AnswerMaps
<1>6. CASE Respond(r)
  <2> DEFINE stored == req[r].open /\ dpod[Key(r)] = None
  <2>1. /\ req[r].pc = "decided" /\ req'[r].by = req[r].by
        /\ req'[r].pc = "done" /\ req'[r].open = stored
    BY <1>1, <1>6 DEF Respond, Handler
  <2>2. CASE req[r].by = Local /\ stored
    <3>1. won[r] = {}
      BY <1>1, <2>2 DEF EntryOK, LocalOK
    <3>2. Chosen(r) = Local /\ Chosen(r)' = Local
      BY <1>2, <2>1, <2>2, <3>1, ChosenIs, NextChosenIs
    <3>3. RunsIn(r)' = RunsIn(r) \cup {Local}
      BY <1>2, <2>1, <2>2 DEF RunsIn
    <3> QED BY <1>1, <1>3, <2>1, <3>2, <3>3, RunMaps
  <2>3. CASE ~(req[r].by = Local /\ stored)
    <3>1. ~Runs(r) /\ ~Runs(r)'
      BY <2>1, <2>3 DEF Runs
    <3>2. Unseen(r)
      BY <1>2, <2>1, <3>1 DEF Unseen
    <3> QED BY <1>3, <3>2, StutterMaps
  <2> QED BY <2>2, <2>3
<1>7. CASE PutPending(r) \/ LabelPanic(r) \/ PublishOffer(r) \/ WebhookTimeout(r)
  <2>1. req'[r].by = req[r].by /\ ~Runs(r) /\ ~Runs(r)'
    <3>1. CASE PutPending(r)
      BY <1>1, <3>1 DEF PutPending, Arrives, Handler, Runs, EntryOK
    <3>2. CASE LabelPanic(r)
      BY <1>1, <3>2 DEF LabelPanic, Handler, Runs, EntryOK
    <3>3. CASE PublishOffer(r)
      BY <1>1, <3>3 DEF PublishOffer, Handler, Runs, EntryOK
    <3>4. CASE WebhookTimeout(r)
      BY <1>1, <3>4 DEF WebhookTimeout, Handler, Runs
    <3> QED BY <1>7, <3>1, <3>2, <3>3, <3>4
  <2>2. Unseen(r)
    BY <1>2, <2>1 DEF Unseen
  <2> QED BY <1>3, <2>2, StutterMaps
<1> QED BY <1>4, <1>5, <1>6, <1>7, Ruled, NoExpiry DEF HandlerStep, PutFails, PublishFails,
           WaitExpires, PollFails

LEMMA WorkerMaps ==
  ASSUME RefInv, UniqueNames, Next, NEW s \in Stealers, WorkerStep(s)
  PROVE  [Contract!ContractNext]_(Contract!contractVars)
<1> USE DEF donorVars, brokerVars, clusterVars, historyVars
<1> SoleInv
  BY DEF RefInv
<1>1. UNCHANGED req /\ ~Fault
  BY Ruled DEF WorkerStep, CheckPod, Reading, ReadOpen, ReadOwn, ReadTaken, ReadFails,
     Claiming, Claim, LoseClaim, ClaimFails, AckClaim, CreatePod, WaitRunning, AckAgain,
     CreateService, ExportService, Publishing, PublishDetails, RetryPublish, PublishDetailsFails
<1>2. worker[s].pc # "idle" => Msg(s) \in Requests
  BY Copies
<1>3. CASE Claim(s)
  <2> PICK m \in Requests : m = Msg(s)
    BY <1>2, <1>3 DEF Claim, Claiming
  <2>1. /\ worker[s].pc = "claim" /\ TakeOffer(s) /\ UNCHANGED ran /\ Taken(s) = {m}
    BY <1>3, EntriesClaim DEF Claim, Claiming
  <2>2. won'[m] = won[m] \cup {s} /\ \A q \in Requests \ {m} : won'[q] = won[q]
    BY <2>1 DEF TakeOffer
  <2>3. \A q \in Requests \ {m} : Unseen(q)
    BY <1>1, <2>1, <2>2 DEF Unseen, Runs
  <2>4. won[m] = {} /\ req[m].by # Local
    <3>1. kv[Key(m)].owner = Pending /\ req[m].rev > 0 /\ EntryOK(m) /\ LocalOK(m)
      BY <2>1, Truths DEF RefInv, SoleInv, Entries, OwnOK, Entry, RunInv, Inv, WorkerOK
    <3> QED BY <3>1 DEF EntryOK, LocalOK
  <2>5. won'[m] = {s}
    BY <2>2, <2>4
  <2>6. Chosen(m) = Pending /\ Chosen(m)' = s
    BY <2>4, <2>5, ChosenIs, NextChosenIs
  <2>7. RunsIn(m)' = RunsIn(m) /\ req'[m].by = req[m].by
    BY <1>1, <2>1 DEF RunsIn
  <2> QED BY <2>3, <2>6, <2>7, ChooseMaps
<1>4. CASE CreatePod(s) /\ MakePod(s)
  <2> PICK m \in Requests : m = Msg(s)
    BY <1>2, <1>4 DEF CreatePod
  <2>1. worker[s].pc = "create" /\ UNCHANGED <<kv, won>> /\ Goto(s, "wait")
    BY <1>1, <1>4 DEF CreatePod, MakePod
  <2>2. won[m] = {s}
    BY <1>1, <1>4, <2>1, EntriesMake
  <2>3. ran'[m] = ran[m] \cup {s} /\ \A q \in Requests \ {m} : ran'[q] = ran[q]
    BY <1>4, Truths DEF MakePod
  <2>4. \A q \in Requests \ {m} : Unseen(q)
    BY <1>1, <2>1, <2>3 DEF Unseen, Runs
  <2>5. Chosen(m) = s /\ Chosen(m)' = s
    BY <2>1, <2>2, ChosenIs, NextChosenIs
  <2>6. RunsIn(m)' = RunsIn(m) \cup {s} /\ req'[m].by = req[m].by
    BY <1>1, <2>3 DEF RunsIn
  <2> QED BY <2>4, <2>5, <2>6, RunMaps, OwnersAssumption
<1>5. ASSUME ~Claim(s), ~(CreatePod(s) /\ MakePod(s))
      PROVE  [Contract!ContractNext]_(Contract!contractVars)
  <2>1. ~LoseClaim(s)
    BY DEF LoseClaim, Claiming, SoleInv, Entries, OwnOK, AtRevision
  <2>2. UNCHANGED <<won, ran>>
    BY <1>1, <1>5, <2>1 DEF WorkerStep, CheckPod, Reading, ReadOpen, ReadOwn, ReadTaken,
       ReadFails, ClaimFails, AckClaim, CreatePod, WaitRunning, AckAgain, CreateService,
       ExportService, Publishing, PublishDetails, RetryPublish, PublishDetailsFails
  <2>3. \A r \in Requests : Unseen(r)
    BY <1>1, <2>2 DEF Unseen, Runs
  <2> QED BY <2>3, StutterMaps
<1> QED BY <1>3, <1>4, <1>5

LEMMA StepMaps ==
  ASSUME RefInv, UniqueNames, [Next]_vars
  PROVE  [Contract!ContractNext]_(Contract!contractVars)
<1> USE DEF donorVars, brokerVars, clusterVars, historyVars
<1> SoleInv
  BY DEF RefInv
<1>1. ASSUME UNCHANGED <<req, won, ran>> PROVE UNCHANGED Contract!contractVars
  BY <1>1, StutterMaps DEF Unseen, Runs
<1>2. ASSUME NEW d \in Donors, DonorCrash(d) PROVE UNCHANGED Contract!contractVars
  <2>1. UNCHANGED <<won, ran>>
    BY <1>2 DEF DonorCrash
  <2>2. ASSUME NEW r \in Requests PROVE Unseen(r)
    <3>1. \/ req'[r] = req[r]
          \/ /\ req'[r] = [req[r] EXCEPT !.pc = "done", !.open = FALSE]
             /\ req[r].pc \in {"offered", "waiting", "decided"}
      BY <1>2 DEF DonorCrash
    <3>2. req[r] \in Handler
      BY Copies
    <3>3. req'[r].by = req[r].by /\ (Runs(r)' <=> Runs(r))
      BY <3>1, <3>2 DEF Handler, Runs
    <3> QED BY <2>1, <3>3 DEF Unseen
  <2> QED BY <2>2, StutterMaps
<1>3. CASE UNCHANGED vars
  BY <1>1, <1>3 DEF vars
<1> QED BY <1>1, <1>2, <1>3, HandlerMaps, WorkerMaps
        DEF Next, ProtocolStep, AckWaitExpires, Deliver, DonorPodDeleted,
            PodStarts, PodEnds, PodDeleted, SetPod, Crash

LEMMA RefInvAlways ==
  ASSUME UniqueNames,
         Budget["fault"] = 0, Budget["slow"] = 0, Budget["expire"] = 0
  PROVE  Spec => []RefInv
<1>1. Init => RefInv
  BY RefInvInit
<1>2. RefInv /\ [Next]_vars => RefInv'
  BY RefInvStep
<1> QED BY <1>1, <1>2, PTL DEF Spec

\* Among requests with names of their own the protocol keeps the contract: one
\* cluster is chosen, once, only that one executes the workload, and the
\* webhook names it; whichever processes crash, pods are deleted and API
\* servers give up, while no call fails, no wait of the donor expires and
\* no copy that a stealer still holds is redelivered.
THEOREM ImplementsContractTheorem ==
  ASSUME UniqueNames,
         Budget["fault"] = 0, Budget["slow"] = 0, Budget["expire"] = 0
  PROVE  Spec => ImplementsContract
<1>1. Init => Contract!ContractInit
  <2> SUFFICES ASSUME Init PROVE Contract!ContractInit
    OBVIOUS
  <2>1. ASSUME NEW r \in Requests
        PROVE  Chosen(r) = Pending /\ RunsIn(r) = {} /\ req[r].by = Pending
    BY OwnersAssumption, ChosenIs DEF Init, RunsIn
  <2> QED BY <2>1 DEF Contract!ContractInit
<1>2. RefInv /\ [Next]_vars => [Contract!ContractNext]_(Contract!contractVars)
  BY StepMaps
<1> QED BY <1>1, <1>2, RefInvAlways, PTL DEF Spec, ImplementsContract, Contract!ContractSpec

\* What the contract is for, under the same conditions: no workload is executed
\* by two clusters, not by a stealer and the donor either, and the webhook's
\* answer is the truth.
THEOREM ExecutedOnceTheorem ==
  ASSUME UniqueNames,
         Budget["fault"] = 0, Budget["slow"] = 0, Budget["expire"] = 0
  PROVE  Spec => []ExecutedOnce
<1>1. ASSUME RefInv, NEW r \in Requests
      PROVE  /\ RunsIn(r) \subseteq {Chosen(r)}
             /\ req[r].by \in {Pending, Chosen(r)}
  <2>1. /\ EntryOK(r) /\ LocalOK(r) /\ kv[Key(r)].owner \in Owners
        /\ req[r].by \in {Pending, Local} \cup Stealers
    BY <1>1, Truths DEF RefInv, Handler, Answers
  <2>2. Pending \notin Stealers /\ Local \notin Stealers /\ Pending # Local
    BY OwnersAssumption
  <2>3. CASE kv[Key(r)].owner = Pending
    <3>1. won[r] = {} /\ ran[r] = {} /\ req[r].by \in {Pending, Local}
      BY <2>1, <2>2, <2>3 DEF EntryOK
    <3>2. req[r].by = Local => Chosen(r) = Local
      BY <3>1, ChosenIs
    <3> QED BY <2>2, <3>1, <3>2 DEF RunsIn
  <2>4. CASE kv[Key(r)].owner # Pending
    <3>1. PICK s \in Stealers : kv[Key(r)].owner = s
      BY <2>1, <2>4 DEF Owners
    <3>2. won[r] = {s} /\ ran[r] \subseteq {s} /\ req[r].by # Local
      BY <2>1, <2>2, <2>4, <3>1 DEF EntryOK, LocalOK
    <3>3. Chosen(r) = s /\ RunsIn(r) \subseteq {s}
      BY <3>2, ChosenIs DEF RunsIn
    <3> QED BY <2>1, <2>2, <3>1, <3>2, <3>3 DEF EntryOK
  <2> QED BY <2>3, <2>4
<1>2. RefInv => ExecutedOnce
  BY <1>1 DEF ExecutedOnce, Contract!ExecutedOnce
<1> QED BY <1>2, RefInvAlways, PTL

------------------------------------------------------------------------------
(* The life of the workloads.                                                *)

\* What a stealer's cluster runs under a pod name was made there of the message
\* of a request of that name; a stored pod's request is over and was accepted;
\* no webhook decides on the owner "Pending".
PodOK(s, p) == \/ spod[s][p] = NoPod
               \/ /\ spod[s][p].req \in Requests /\ PodOf[spod[s][p].req] = p
                  /\ s \in ran[spod[s][p].req]
                  /\ spod[s][p].phase \in {"Pending", "Running", "Succeeded"}
PlaceOK(k)   == dpod[k] # None => /\ Key(dpod[k]) = k
                                  /\ req[dpod[k]].pc = "done" /\ req[dpod[k]].open
DecidedOK(r) == req[r].pc = "decided" => req[r].by # Pending

LifeInv == /\ RefInv
           /\ \A s \in Stealers, p \in Pods : PodOK(s, p)
           /\ \A k \in Keys : PlaceOK(k)
           /\ \A r \in Requests : DecidedOK(r)

LEMMA LifeTypes ==
  ASSUME LifeInv
  PROVE  /\ SoleInv /\ Typed
         /\ req \in [Requests -> Handler]
         /\ dpod \in [Keys -> Requests \cup {None}]
         /\ spod \in [Stealers -> [Pods -> StolenPod]]
         /\ worker \in [Stealers -> WorkerState]
         /\ ran \in [Requests -> SUBSET Stealers] /\ won \in [Requests -> SUBSET Stealers]
         /\ \A r \in Requests : PodOf[r] \in Pods /\ Key(r) \in Keys
         /\ None \notin Requests
<1>1. SoleInv /\ RunInv /\ Typed /\ TypeOK
  BY DEF LifeInv, RefInv, SoleInv, RunInv, Inv, Typed
<1>2. \A r \in Requests : Key(r) \in Keys
  BY KeyType
<1> QED BY <1>1, <1>2, RequestsAssumption DEF TypeOK, RunInv

\* The pods of the stealers' clusters: only the worker makes one, at a free
\* name; the cluster moves it on and loses it.
LEMMA PodMoves ==
  ASSUME LifeInv, Next
  PROVE  \/ UNCHANGED spod
         \/ \E s \in Stealers : WorkerStep(s) /\ worker[s].pc = "create" /\ MakePod(s)
         \/ \E s \in Stealers, p \in Pods : PodStarts(s, p) \/ PodEnds(s, p) \/ PodDeleted(s, p)
<1> USE DEF donorVars, brokerVars, clusterVars, historyVars
<1>1. ASSUME NEW r \in Requests, HandlerStep(r) PROVE UNCHANGED spod
  BY <1>1 DEF HandlerStep, PassThrough, ConnectFails, PutPending, PutFails, LabelPanic,
     PublishOffer, PublishFails, PollStolen, WaitExpires, PollFails, Respond
<1>2. ASSUME NEW s \in Stealers, WorkerStep(s), ~(worker[s].pc = "create" /\ MakePod(s))
      PROVE  UNCHANGED spod
  BY <1>2 DEF WorkerStep, CheckPod, Reading, ReadOpen, ReadOwn, ReadTaken, ReadFails,
     Claiming, Claim, LoseClaim, ClaimFails, AckClaim, CreatePod, WaitRunning, AckAgain,
     CreateService, ExportService, Publishing, PublishDetails, RetryPublish, PublishDetailsFails
<1> QED BY <1>1, <1>2 DEF Next, ProtocolStep, WebhookTimeout, AckWaitExpires, Deliver,
           DonorPodDeleted, DonorCrash, Crash

LEMMA PodStep ==
  ASSUME LifeInv, Next, NEW s \in Stealers, NEW p \in Pods PROVE PodOK(s, p)'
<1>1. /\ spod \in [Stealers -> [Pods -> StolenPod]] /\ spod[s][p] \in StolenPod
      /\ ran \in [Requests -> SUBSET Stealers] /\ PodOK(s, p) /\ Typed
      /\ \A t \in Stealers : worker[t].pc # "idle" => Msg(t) \in Requests
      /\ \A r \in Requests : PodOf[r] \in Pods
  BY LifeTypes, Copies DEF LifeInv
<1>2. \A r \in Requests : ran[r] \subseteq ran'[r]
  <2>1. CASE UNCHANGED ran
    BY <2>1
  <2>2. CASE \E t \in Stealers : MakePod(t) /\ worker[t].pc = "create"
    BY <1>1, <2>2 DEF MakePod
  <2> QED BY <2>1, <2>2, RanMade
<1>3. ASSUME spod'[s][p] = spod[s][p] PROVE PodOK(s, p)'
  BY <1>1, <1>2, <1>3 DEF PodOK
<1>4. ASSUME NEW t \in Stealers, worker[t].pc = "create", MakePod(t) PROVE PodOK(s, p)'
  <2> PICK m \in Requests : m = Msg(t)
    BY <1>1, <1>4
  <2>1. /\ spod' = [spod EXCEPT ![t][PodOf[m]] = [req |-> m, phase |-> "Pending"]]
        /\ t \in ran'[m]
    BY <1>1, <1>4 DEF MakePod
  <2>2. CASE t = s /\ PodOf[m] = p
    BY <1>1, <2>1, <2>2 DEF PodOK
  <2>3. CASE ~(t = s /\ PodOf[m] = p)
    BY <1>1, <1>3, <2>1, <2>3
  <2> QED BY <2>2, <2>3
<1>5. ASSUME NEW t \in Stealers, NEW n \in Pods,
             PodStarts(t, n) \/ PodEnds(t, n) \/ PodDeleted(t, n)
      PROVE  PodOK(s, p)'
  <2>1. CASE t = s /\ n = p
    BY <1>1, <1>2, <1>5, <2>1
       DEF PodStarts, PodEnds, PodDeleted, SetPod, PodOK, StolenPod, NoPod
  <2>2. CASE ~(t = s /\ n = p)
    BY <1>1, <1>3, <1>5, <2>2 DEF PodStarts, PodEnds, PodDeleted, SetPod
  <2> QED BY <2>1, <2>2
<1> QED BY <1>3, <1>4, <1>5, PodMoves

\* The donor's pods: stored by a response, under the request's own key and only
\* if that was free; otherwise only deleted.
LEMMA PlaceMoves ==
  ASSUME LifeInv, Next
  PROVE  \/ UNCHANGED dpod
         \/ \E r \in Requests : Respond(r)
         \/ \E k \in Keys : DonorPodDeleted(k)
<1> USE DEF donorVars, brokerVars, clusterVars, historyVars
<1>1. ASSUME NEW r \in Requests, HandlerStep(r) PROVE UNCHANGED dpod \/ Respond(r)
  BY <1>1 DEF HandlerStep, PassThrough, ConnectFails, PutPending, PutFails, LabelPanic,
     PublishOffer, PublishFails, PollStolen, WaitExpires, PollFails
<1>2. ASSUME NEW s \in Stealers, WorkerStep(s) PROVE UNCHANGED dpod
  BY <1>2 DEF WorkerStep, CheckPod, Reading, ReadOpen, ReadOwn, ReadTaken, ReadFails,
     Claiming, Claim, LoseClaim, ClaimFails, AckClaim, CreatePod, WaitRunning, AckAgain,
     CreateService, ExportService, Publishing, PublishDetails, RetryPublish, PublishDetailsFails
<1> QED BY <1>1, <1>2 DEF Next, ProtocolStep, WebhookTimeout, AckWaitExpires, Deliver,
           PodStarts, PodEnds, PodDeleted, SetPod, DonorCrash, Crash

\* A request that is over stays as it is.
LEMMA OverStays ==
  ASSUME LifeInv, Next, NEW r \in Requests, req[r].pc = "done" PROVE req'[r] = req[r]
<1>1. ~HandlerStep(r) /\ ~WebhookTimeout(r)
  BY DEF HandlerStep, PassThrough, ConnectFails, PutPending, PutFails, LabelPanic,
     PublishOffer, PublishFails, PollStolen, WaitExpires, PollFails, Respond, Arrives,
     WebhookTimeout
<1> QED BY <1>1, RequestMoves, LifeTypes

LEMMA PlaceStep == ASSUME LifeInv, Next, NEW k \in Keys PROVE PlaceOK(k)'
<1>1. /\ req \in [Requests -> Handler] /\ dpod \in [Keys -> Requests \cup {None}]
      /\ PlaceOK(k) /\ dpod[k] \in Requests \cup {None}
      /\ \A r \in Requests : Key(r) \in Keys
  BY LifeTypes DEF LifeInv
<1>2. ASSUME dpod'[k] \in {dpod[k], None} PROVE PlaceOK(k)'
  BY <1>1, <1>2, OverStays DEF PlaceOK, Key
<1>3. ASSUME NEW r \in Requests, Respond(r) PROVE PlaceOK(k)'
  <2>1. CASE dpod'[k] = dpod[k]
    BY <1>2, <2>1
  <2>2. CASE dpod'[k] # dpod[k]
    <3>1. /\ req[r].open /\ dpod' = [dpod EXCEPT ![Key(r)] = r]
          /\ req'[r].pc = "done" /\ req'[r].open
      BY <1>1, <1>3, <2>2 DEF Respond, Handler
    <3>2. Key(r) = k /\ dpod'[k] = r
      BY <1>1, <2>2, <3>1
    <3> QED BY <3>1, <3>2 DEF PlaceOK, Key
  <2> QED BY <2>1, <2>2
<1>4. ASSUME NEW j \in Keys, DonorPodDeleted(j) PROVE PlaceOK(k)'
  BY <1>1, <1>2, <1>4 DEF DonorPodDeleted
<1> QED BY <1>2, <1>3, <1>4, PlaceMoves

LEMMA DecidedStep == ASSUME LifeInv, Next, NEW r \in Requests PROVE DecidedOK(r)'
<1>1. /\ req \in [Requests -> Handler] /\ req[r] \in Handler /\ DecidedOK(r) /\ RefInv /\ Typed
      /\ Pending # Local /\ SoleInv
  BY LifeTypes, OwnersAssumption DEF LifeInv
<1>2. ASSUME NEW who, Decide(r, who), who # Pending PROVE DecidedOK(r)'
  <2>1. req'[r].by = who
    BY <1>1, <1>2 DEF Decide, Handler
  <2> QED BY <1>2, <2>1 DEF DecidedOK
<1>3. CASE PassThrough(r) \/ ConnectFails(r) \/ PollStolen(r)
  BY <1>1, <1>2, <1>3 DEF PassThrough, ConnectFails, PollStolen
<1>4. CASE PutPending(r) \/ LabelPanic(r) \/ PublishOffer(r) \/ Respond(r)
  BY <1>1, <1>4 DEF PutPending, LabelPanic, PublishOffer, Respond, DecidedOK, Handler
<1>5. ~PutFails(r) /\ ~PublishFails(r) /\ ~WaitExpires(r) /\ ~PollFails(r)
  BY <1>1, Ruled, NoExpiry DEF PutFails, PublishFails, WaitExpires, PollFails
<1>6. CASE req'[r] = req[r]
  BY <1>1, <1>6 DEF DecidedOK
<1>7. CASE WebhookTimeout(r) /\ req'[r] = [req[r] EXCEPT !.open = FALSE]
  BY <1>1, <1>7 DEF DecidedOK, Handler
<1>8. CASE req'[r] = [req[r] EXCEPT !.pc = "done", !.open = FALSE]
  BY <1>1, <1>8 DEF DecidedOK, Handler
<1> QED BY <1>1, <1>3, <1>4, <1>5, <1>6, <1>7, <1>8, RequestMoves DEF HandlerStep

LEMMA LifeInvStep == ASSUME UniqueNames, LifeInv, [Next]_vars PROVE LifeInv'
<1>1. RefInv'
  BY RefInvStep DEF LifeInv
<1>2. CASE Next
  BY <1>1, <1>2, PodStep, PlaceStep, DecidedStep DEF LifeInv
<1>3. CASE UNCHANGED vars
  BY <1>1, <1>3 DEF LifeInv, PodOK, PlaceOK, DecidedOK, vars, Key
<1> QED BY <1>2, <1>3

\* What a request's life depends on.
Still(r)  == /\ Chosen(r)' = Chosen(r) /\ PhaseOf(r)' = PhaseOf(r) /\ PlaceOf(r)' = PlaceOf(r)
PodSeen(s, r) == /\ spod'[s][PodOf[r]].req = r <=> spod[s][PodOf[r]].req = r
                 /\ spod[s][PodOf[r]].req = r =>
                      spod'[s][PodOf[r]].phase = spod[s][PodOf[r]].phase

LEMMA ChosenStays ==
  ASSUME NEW r \in Requests, won'[r] = won[r],
         (req'[r].by = Local) <=> (req[r].by = Local)
  PROVE  Chosen(r)' = Chosen(r)
  BY DEF Chosen

LEMMA PhaseStays ==
  ASSUME NEW r \in Requests, Chosen(r)' = Chosen(r), ran'[r] = ran[r],
         \A s \in Stealers : PodSeen(s, r)
  PROVE  PhaseOf(r)' = PhaseOf(r)
<1>1. CASE Chosen(r) \notin Stealers
  BY <1>1 DEF PhaseOf
<1>2. ASSUME NEW s \in Stealers, Chosen(r) = s PROVE PhaseOf(r)' = PhaseOf(r)
  BY <1>2 DEF PhaseOf, PodSeen
<1> QED BY <1>1, <1>2

LEMMA PlaceStays ==
  ASSUME NEW r \in Requests, (dpod'[Key(r)] = r) <=> (dpod[Key(r)] = r),
         (req'[r].pc = "done" /\ req'[r].open) <=> (req[r].pc = "done" /\ req[r].open)
  PROVE  PlaceOf(r)' = PlaceOf(r)
  BY DEF PlaceOf, Key

LEMMA UntouchedStill ==
  ASSUME NEW r \in Requests, req'[r] = req[r], won'[r] = won[r], ran'[r] = ran[r],
         UNCHANGED spod, (dpod'[Key(r)] = r) <=> (dpod[Key(r)] = r)
  PROVE  Still(r)
<1>1. Chosen(r)' = Chosen(r)
  BY ChosenStays
<1>2. PhaseOf(r)' = PhaseOf(r)
  BY <1>1, PhaseStays DEF PodSeen
<1>3. PlaceOf(r)' = PlaceOf(r)
  BY PlaceStays
<1> QED BY <1>1, <1>2, <1>3 DEF Still

LEMMA StillLives == ASSUME \A r \in Requests : Still(r) PROVE UNCHANGED Life!lifeVars
  BY DEF Life!lifeVars, Still

\* A step in which one request lives on.
LEMMA TakeLives ==
  ASSUME NEW r \in Requests, \A q \in Requests \ {r} : Still(q),
         NEW c \in Stealers \cup {Local}, Chosen(r) = Pending, Chosen(r)' = c,
         PhaseOf(r)' = PhaseOf(r), PlaceOf(r)' = PlaceOf(r)
  PROVE  Life!LifeNext
<1>1. Life!Take(r, c)
  BY DEF Life!Take, Still
<1> QED BY <1>1 DEF Life!LifeNext

LEMMA StoreLives ==
  ASSUME NEW r \in Requests, \A q \in Requests \ {r} : Still(q),
         Chosen(r) # Pending, Chosen(r)' = Chosen(r), PhaseOf(r)' = PhaseOf(r),
         PlaceOf(r) = "none", PlaceOf(r)' = "stored"
  PROVE  Life!LifeNext
<1>1. Life!Store(r)
  BY DEF Life!Store, Life!SetPlace, Still
<1> QED BY <1>1 DEF Life!LifeNext

LEMMA WithdrawLives ==
  ASSUME NEW r \in Requests, \A q \in Requests \ {r} : Still(q),
         Chosen(r)' = Chosen(r), PhaseOf(r)' = PhaseOf(r),
         PlaceOf(r) = "stored", PlaceOf(r)' = "withdrawn"
  PROVE  Life!LifeNext
<1>1. Life!Withdraw(r)
  BY DEF Life!Withdraw, Life!SetPlace, Still
<1> QED BY <1>1 DEF Life!LifeNext

LEMMA CreateLives ==
  ASSUME NEW r \in Requests, \A q \in Requests \ {r} : Still(q),
         Chosen(r) \in Stealers, Chosen(r)' = Chosen(r), PlaceOf(r)' = PlaceOf(r),
         PhaseOf(r)' = "Pending",
         \A q \in Requests : Chosen(q) = Chosen(r) /\ PodOf[q] = PodOf[r] =>
                               PhaseOf(q) \notin {"Pending", "Running", "Succeeded"}
  PROVE  Life!LifeNext
<1>1. Life!Create(r)
  BY DEF Life!Create, Life!SetPod, Life!Alive, Still
<1> QED BY <1>1 DEF Life!LifeNext

LEMMA MoveLives ==
  ASSUME NEW r \in Requests, \A q \in Requests \ {r} : Still(q),
         Chosen(r)' = Chosen(r), PlaceOf(r)' = PlaceOf(r),
         \/ PhaseOf(r) = "Pending" /\ PhaseOf(r)' = "Running"
         \/ PhaseOf(r) = "Running" /\ PhaseOf(r)' = "Succeeded"
         \/ PhaseOf(r) \in {"Pending", "Running", "Succeeded"} /\ PhaseOf(r)' = "gone"
  PROVE  Life!LifeNext
<1>1. Life!Start(r) \/ Life!Finish(r) \/ Life!Delete(r)
  BY DEF Life!Start, Life!Finish, Life!Delete, Life!SetPod, Life!Alive, Still
<1> QED BY <1>1 DEF Life!LifeNext

LEMMA HandlerLives ==
  ASSUME LifeInv, UniqueNames, Next, NEW r \in Requests, HandlerStep(r) \/ WebhookTimeout(r)
  PROVE  [Life!LifeNext]_(Life!lifeVars)
<1> USE DEF brokerVars, clusterVars, historyVars
<1>1. /\ SoleInv /\ RefInv
      /\ req \in [Requests -> Handler] /\ req[r] \in Handler /\ OfferOK(r) /\ EntryOK(r)
      /\ LocalOK(r) /\ DecidedOK(r) /\ kv[Key(r)].owner \in Owners
      /\ dpod \in [Keys -> Requests \cup {None}] /\ None \notin Requests
      /\ \A q \in Requests : Key(q) \in Keys
      /\ Pending \notin Stealers /\ Local \notin Stealers /\ Pending # Local
  BY LifeTypes, Truths, OwnersAssumption DEF LifeInv, RefInv
<1>2. UNCHANGED <<won, ran, spod>> /\ \A q \in Requests \ {r} : req'[q] = req[q]
  BY <1>1 DEF HandlerStep, PassThrough, ConnectFails, PutPending, PutFails, LabelPanic, PublishOffer,
     PublishFails, PollStolen, WaitExpires, PollFails, Respond, WebhookTimeout, Decide
<1>3. ASSUME UNCHANGED dpod PROVE \A q \in Requests \ {r} : Still(q)
  BY <1>2, <1>3, UntouchedStill, Zenon DEF Key
<1>4. CASE PassThrough(r) \/ ConnectFails(r)
  <2>1. /\ req[r].pc = "new" /\ req'[r].pc = "decided" /\ req'[r].by = Local
        /\ UNCHANGED dpod
    BY <1>1, <1>4 DEF PassThrough, ConnectFails, Arrives, Decide, Handler
  <2>2. won[r] = {} /\ req[r].by = Pending
    BY <1>1, <2>1 DEF OfferOK, EntryOK
  <2>3. Chosen(r) = Pending /\ Chosen(r)' = Local
    BY <1>1, <1>2, <2>1, <2>2, ChosenIs, NextChosenIs
  <2>4. PhaseOf(r)' = PhaseOf(r)
    BY <1>1, <2>3 DEF PhaseOf
  <2>5. PlaceOf(r)' = PlaceOf(r)
    BY <2>1, PlaceStays
  <2> QED BY <1>3, <2>1, <2>3, <2>4, <2>5, TakeLives
<1>5. CASE PutPending(r) \/ LabelPanic(r) \/ PublishOffer(r) \/ PollStolen(r) \/ WebhookTimeout(r)
  <2>1. /\ UNCHANGED dpod /\ ((req'[r].by = Local) <=> (req[r].by = Local))
        /\ ~(req[r].pc = "done" /\ req[r].open) /\ ~(req'[r].pc = "done" /\ req'[r].open)
    <3>1. CASE PutPending(r)
      BY <1>1, <3>1 DEF PutPending, Arrives, Handler
    <3>2. CASE LabelPanic(r)
      BY <1>1, <3>2 DEF LabelPanic, Handler
    <3>3. CASE PublishOffer(r)
      BY <1>1, <3>3 DEF PublishOffer, Handler
    <3>4. CASE PollStolen(r)
      BY <1>1, <3>4 DEF PollStolen, Decide, Handler, EntryOK, Owners
    <3>5. CASE WebhookTimeout(r)
      BY <1>1, <3>5 DEF WebhookTimeout, Handler
    <3> QED BY <1>5, <3>1, <3>2, <3>3, <3>4, <3>5
  <2>2. Chosen(r)' = Chosen(r)
    BY <1>2, <2>1, ChosenStays
  <2>3. PhaseOf(r)' = PhaseOf(r)
    BY <1>2, <2>2, PhaseStays DEF PodSeen
  <2>4. PlaceOf(r)' = PlaceOf(r)
    BY <2>1, PlaceStays
  <2>5. Still(r)
    BY <2>2, <2>3, <2>4 DEF Still
  <2> QED BY <1>3, <2>1, <2>5, StillLives
<1>6. CASE Respond(r)
  <2> DEFINE stored == req[r].open /\ dpod[Key(r)] = None
  <2>1. /\ req[r].pc = "decided" /\ req'[r].by = req[r].by
        /\ req'[r].pc = "done" /\ req'[r].open = stored
        /\ dpod' = IF stored THEN [dpod EXCEPT ![Key(r)] = r] ELSE dpod
    BY <1>1, <1>6 DEF Respond, Handler
  <2>2. Chosen(r)' = Chosen(r)
    BY <1>2, <2>1, ChosenStays
  <2>3. PhaseOf(r)' = PhaseOf(r)
    BY <1>2, <2>2, PhaseStays DEF PodSeen
  <2>4. dpod[Key(r)] # r
    BY <1>1, <2>1 DEF LifeInv, PlaceOK
  <2>5. PlaceOf(r) = "none"
    BY <2>1, <2>4 DEF PlaceOf
  <2>6. CASE stored
    <3>1. dpod'[Key(r)] = r /\ \A q \in Requests \ {r} : dpod'[Key(q)] = dpod[Key(q)]
      BY <1>1, <2>1, <2>6 DEF UniqueNames
    <3>2. \A q \in Requests \ {r} : Still(q)
      BY <1>2, <3>1, UntouchedStill
    <3>3. PlaceOf(r)' = "stored"
      BY <3>1 DEF PlaceOf, Key
    <3>4. Chosen(r) # Pending
      <4>1. CASE req[r].by = Local
        <5>1. won[r] = {}
          BY <1>1, <4>1 DEF EntryOK, LocalOK
        <5> QED BY <1>1, <4>1, <5>1, ChosenIs
      <4>2. CASE req[r].by \in Stealers
        <5>1. won[r] = {req[r].by}
          BY <1>1, <4>2 DEF EntryOK
        <5> QED BY <1>1, <4>2, <5>1, ChosenIs
      <4>3. req[r].by \in {Local} \cup Stealers
        BY <1>1, <2>1 DEF DecidedOK, Handler, Answers
      <4> QED BY <4>1, <4>2, <4>3
    <3> QED BY <2>2, <2>3, <2>5, <3>2, <3>3, <3>4, StoreLives
  <2>7. CASE ~stored
    <3>1. UNCHANGED dpod /\ ~req'[r].open
      BY <2>1, <2>7
    <3>2. PlaceOf(r)' = PlaceOf(r)
      BY <2>1, <3>1, PlaceStays
    <3>3. Still(r)
      BY <2>2, <2>3, <3>2 DEF Still
    <3> QED BY <1>3, <3>1, <3>3, StillLives
  <2> QED BY <2>6, <2>7
<1> QED BY <1>1, <1>4, <1>5, <1>6, Ruled, NoExpiry DEF HandlerStep, PutFails, PublishFails,
           WaitExpires, PollFails

LEMMA WorkerLives ==
  ASSUME LifeInv, UniqueNames, Next, NEW s \in Stealers, WorkerStep(s)
  PROVE  [Life!LifeNext]_(Life!lifeVars)
<1> USE DEF donorVars, brokerVars, clusterVars, historyVars
<1> SoleInv /\ RefInv
  BY LifeTypes DEF LifeInv
<1>1. UNCHANGED <<req, dpod>> /\ ~Fault
  BY Ruled DEF WorkerStep, CheckPod, Reading, ReadOpen, ReadOwn, ReadTaken, ReadFails,
     Claiming, Claim, LoseClaim, ClaimFails, AckClaim, CreatePod, WaitRunning, AckAgain,
     CreateService, ExportService, Publishing, PublishDetails, RetryPublish, PublishDetailsFails
<1>2. /\ worker[s].pc # "idle" => Msg(s) \in Requests
      /\ spod \in [Stealers -> [Pods -> StolenPod]] /\ ran \in [Requests -> SUBSET Stealers]
      /\ \A r \in Requests : PodOf[r] \in Pods
      /\ None \notin Requests /\ \A t \in Stealers, p \in Pods : PodOK(t, p)
      /\ Pending \notin Stealers
  BY LifeTypes, Copies, OwnersAssumption DEF LifeInv
<1>3. \A q \in Requests : PlaceOf(q)' = PlaceOf(q)
  BY <1>1, PlaceStays DEF Key
<1>4. CASE Claim(s)
  <2> PICK m \in Requests : m = Msg(s)
    BY <1>2, <1>4 DEF Claim, Claiming
  <2>1. /\ worker[s].pc = "claim" /\ TakeOffer(s) /\ UNCHANGED <<spod, ran>> /\ Taken(s) = {m}
    BY <1>4, EntriesClaim DEF Claim, Claiming
  <2>2. won'[m] = won[m] \cup {s} /\ \A q \in Requests \ {m} : won'[q] = won[q]
    BY <2>1 DEF TakeOffer
  <2>3. \A q \in Requests \ {m} : Still(q)
    BY <1>1, <2>1, <2>2, UntouchedStill DEF Key
  <2>4. won[m] = {} /\ req[m].by # Local /\ ran[m] = {}
    <3>1. kv[Key(m)].owner = Pending /\ req[m].rev > 0 /\ EntryOK(m) /\ LocalOK(m)
      BY <2>1, Truths DEF RefInv, SoleInv, Entries, OwnOK, Entry, RunInv, Inv, WorkerOK
    <3> QED BY <3>1 DEF EntryOK, LocalOK
  <2>5. Chosen(m) = Pending /\ Chosen(m)' = s
    <3>1. won'[m] = {s}
      BY <2>2, <2>4
    <3> QED BY <2>4, <3>1, ChosenIs, NextChosenIs
  <2>6. spod'[s][PodOf[m]].req # m /\ ran'[m] = {}
    BY <1>2, <2>1, <2>4 DEF PodOK, NoPod
  <2>7. PhaseOf(m) = "none" /\ PhaseOf(m)' = "none"
    BY <1>2, <2>5, <2>6 DEF PhaseOf
  <2> QED BY <1>3, <2>3, <2>5, <2>7, TakeLives
<1>5. CASE CreatePod(s) /\ MakePod(s)
  <2> PICK m \in Requests : m = Msg(s)
    BY <1>2, <1>5 DEF CreatePod
  <2>1. worker[s].pc = "create" /\ UNCHANGED <<kv, won>> /\ Goto(s, "wait")
    BY <1>1, <1>5 DEF CreatePod, MakePod
  <2>2. won[m] = {s} /\ won'[m] = {s}
    BY <1>1, <1>5, <2>1, EntriesMake
  <2>3. Chosen(m) = s /\ Chosen(m)' = s
    BY <2>2, ChosenIs, NextChosenIs
  <2>4. /\ ran'[m] = ran[m] \cup {s} /\ \A q \in Requests \ {m} : ran'[q] = ran[q]
        /\ spod[s][PodOf[m]] = NoPod
        /\ spod' = [spod EXCEPT ![s][PodOf[m]] = [req |-> m, phase |-> "Pending"]]
    BY <1>2, <1>5 DEF MakePod, PodAt
  <2>5. /\ spod'[s][PodOf[m]] = [req |-> m, phase |-> "Pending"]
        /\ \A t \in Stealers, p \in Pods : t # s \/ p # PodOf[m] => spod'[t][p] = spod[t][p]
    BY <1>2, <2>4
  <2>6. ASSUME NEW q \in Requests \ {m} PROVE Still(q)
    <3>1. Chosen(q)' = Chosen(q)
      BY <1>1, <2>1, ChosenStays
    <3>2. \A t \in Stealers : PodSeen(t, q)
      BY <1>2, <2>4, <2>5 DEF PodSeen, NoPod
    <3>3. PhaseOf(q)' = PhaseOf(q)
      BY <2>4, <3>1, <3>2, PhaseStays
    <3> QED BY <1>3, <3>1, <3>3 DEF Still
  <2>7. PhaseOf(m)' = "Pending"
    BY <2>3, <2>5 DEF PhaseOf
  <2>8. ASSUME NEW q \in Requests, Chosen(q) = Chosen(m), PodOf[q] = PodOf[m]
        PROVE  PhaseOf(q) \notin {"Pending", "Running", "Succeeded"}
    BY <1>2, <2>3, <2>4, <2>8 DEF PhaseOf, NoPod
  <2> QED BY <1>3, <2>3, <2>6, <2>7, <2>8, CreateLives
<1>6. ASSUME ~Claim(s), ~(CreatePod(s) /\ MakePod(s))
      PROVE  [Life!LifeNext]_(Life!lifeVars)
  <2>1. ~LoseClaim(s)
    BY DEF LoseClaim, Claiming, SoleInv, Entries, OwnOK, AtRevision
  <2>2. UNCHANGED <<won, ran, spod>>
    BY <1>1, <1>6, <2>1 DEF WorkerStep, CheckPod, Reading, ReadOpen, ReadOwn, ReadTaken,
       ReadFails, ClaimFails, AckClaim, CreatePod, WaitRunning, AckAgain, CreateService,
       ExportService, Publishing, PublishDetails, RetryPublish, PublishDetailsFails
  <2>3. \A r \in Requests : Still(r)
    BY <1>1, <2>2, UntouchedStill DEF Key
  <2> QED BY <2>3, StillLives
<1> QED BY <1>4, <1>5, <1>6

\* The pods run and go in the cluster of the thief, who made them.
LEMMA PodLives ==
  ASSUME LifeInv, NEW s \in Stealers, NEW p \in Pods,
         PodStarts(s, p) \/ PodEnds(s, p) \/ PodDeleted(s, p)
  PROVE  Life!LifeNext
<1> USE DEF donorVars, brokerVars, clusterVars, historyVars
<1>1. /\ spod \in [Stealers -> [Pods -> StolenPod]] /\ spod[s][p] \in StolenPod /\ PodOK(s, p)
      /\ \A q \in Requests : PodOf[q] \in Pods
      /\ None \notin Requests
  BY LifeTypes DEF LifeInv
<1>2. UNCHANGED <<req, dpod, won, ran>> /\ spod[s][p] # NoPod
  BY DEF PodStarts, PodEnds, PodDeleted, SetPod, NoPod
<1> PICK r \in Requests : r = spod[s][p].req
  BY <1>1, <1>2 DEF PodOK
<1>3. /\ PodOf[r] = p /\ s \in ran[r]
      /\ spod[s][p].phase \in {"Pending", "Running", "Succeeded"}
  BY <1>1, <1>2 DEF PodOK
<1>4. \A q \in Requests : Chosen(q)' = Chosen(q) /\ PlaceOf(q)' = PlaceOf(q)
  BY <1>2, ChosenStays, PlaceStays DEF Key
<1>5. Chosen(r) = s
  <2>1. won[r] = {s}
    BY <1>3, Truths, LifeTypes DEF EntryOK
  <2> QED BY <2>1, ChosenIs
<1>6. /\ \A t \in Stealers, n \in Pods : t # s \/ n # p => spod'[t][n] = spod[t][n]
      /\ spod'[s][p] = NoPod \/ spod'[s][p].req = r
  BY <1>1 DEF PodStarts, PodEnds, PodDeleted, SetPod, StolenPod
<1>7. ASSUME NEW q \in Requests \ {r} PROVE Still(q)
  <2>1. \A t \in Stealers : PodSeen(t, q)
    BY <1>1, <1>3, <1>6 DEF PodSeen, NoPod
  <2>2. PhaseOf(q)' = PhaseOf(q)
    BY <1>2, <1>4, <2>1, PhaseStays
  <2> QED BY <1>4, <2>2 DEF Still
<1>8. PhaseOf(r) = spod[s][p].phase
  BY <1>3, <1>5 DEF PhaseOf
<1>9. \/ PhaseOf(r) = "Pending" /\ PhaseOf(r)' = "Running"
      \/ PhaseOf(r) = "Running" /\ PhaseOf(r)' = "Succeeded"
      \/ PhaseOf(r) \in {"Pending", "Running", "Succeeded"} /\ PhaseOf(r)' = "gone"
  <2>1. Chosen(r)' = s /\ ran'[r] # {}
    BY <1>2, <1>3, <1>4, <1>5
  <2>2. CASE PodStarts(s, p)
    <3>1. spod'[s][p] = [spod[s][p] EXCEPT !.phase = "Running"] /\ spod[s][p].phase = "Pending"
      BY <1>1, <2>2 DEF PodStarts, SetPod
    <3>2. spod'[s][p].req = r /\ spod'[s][p].phase = "Running"
      BY <1>1, <3>1 DEF StolenPod
    <3> QED BY <1>3, <1>8, <2>1, <3>1, <3>2 DEF PhaseOf
  <2>3. CASE PodEnds(s, p)
    <3>1. spod'[s][p] = [spod[s][p] EXCEPT !.phase = "Succeeded"] /\ spod[s][p].phase = "Running"
      BY <1>1, <2>3 DEF PodEnds, SetPod
    <3>2. spod'[s][p].req = r /\ spod'[s][p].phase = "Succeeded"
      BY <1>1, <3>1 DEF StolenPod
    <3> QED BY <1>3, <1>8, <2>1, <3>1, <3>2 DEF PhaseOf
  <2>4. CASE PodDeleted(s, p)
    <3>1. spod'[s][p].req # r
      BY <1>1, <2>4 DEF PodDeleted, SetPod, NoPod
    <3> QED BY <1>3, <1>8, <2>1, <3>1 DEF PhaseOf
  <2> QED BY <2>2, <2>3, <2>4
<1> QED BY <1>4, <1>7, <1>9, MoveLives

LEMMA DeletedLives ==
  ASSUME LifeInv, UniqueNames, NEW k \in Keys, DonorPodDeleted(k)
  PROVE  Life!LifeNext
<1> USE DEF brokerVars, clusterVars, historyVars
<1>1. /\ dpod \in [Keys -> Requests \cup {None}] /\ PlaceOK(k) /\ None \notin Requests
      /\ \A q \in Requests : Key(q) \in Keys
      /\ UNCHANGED <<req, won, ran, spod>> /\ dpod[k] # None
      /\ dpod' = [dpod EXCEPT ![k] = None]
  BY LifeTypes DEF LifeInv, DonorPodDeleted
<1> PICK r \in Requests : r = dpod[k]
  BY <1>1
<1>2. Key(r) = k /\ req[r].pc = "done" /\ req[r].open
  BY <1>1 DEF PlaceOK
<1>3. dpod'[k] = None /\ \A q \in Requests \ {r} : dpod'[Key(q)] = dpod[Key(q)]
  BY <1>1, <1>2 DEF UniqueNames
<1>4. \A q \in Requests \ {r} : Still(q)
  BY <1>1, <1>3, UntouchedStill
<1>5. Chosen(r)' = Chosen(r)
  BY <1>1, ChosenStays
<1>6. PhaseOf(r)' = PhaseOf(r)
  BY <1>1, <1>5, PhaseStays DEF PodSeen
<1>7. dpod'[Key(r)] = None
  BY <1>2, <1>3
<1>8. PlaceOf(r) = "stored" /\ PlaceOf(r)' = "withdrawn"
  BY <1>1, <1>2, <1>7 DEF PlaceOf, Key
<1> QED BY <1>4, <1>5, <1>6, <1>8, WithdrawLives

LEMMA CrashLives ==
  ASSUME LifeInv, NEW d \in Donors, DonorCrash(d) PROVE UNCHANGED Life!lifeVars
<1> USE DEF brokerVars, clusterVars, historyVars
<1>1. UNCHANGED <<dpod, won, ran, spod>>
  BY DEF DonorCrash
<1>2. ASSUME NEW r \in Requests PROVE Still(r)
  <2>1. \/ req'[r] = req[r]
        \/ /\ req'[r] = [req[r] EXCEPT !.pc = "done", !.open = FALSE]
           /\ req[r].pc \in {"offered", "waiting", "decided"}
    BY DEF DonorCrash
  <2>2. req[r] \in Handler
    BY LifeTypes
  <2>3. /\ req'[r].by = req[r].by
        /\ (req'[r].pc = "done" /\ req'[r].open) <=> (req[r].pc = "done" /\ req[r].open)
    BY <2>1, <2>2 DEF Handler
  <2>4. Chosen(r)' = Chosen(r)
    BY <1>1, <2>3, ChosenStays
  <2>5. PhaseOf(r)' = PhaseOf(r)
    BY <1>1, <2>4, PhaseStays DEF PodSeen
  <2>6. PlaceOf(r)' = PlaceOf(r)
    BY <1>1, <2>3, PlaceStays DEF Key
  <2> QED BY <2>4, <2>5, <2>6 DEF Still
<1> QED BY <1>2, StillLives

LEMMA StepLives ==
  ASSUME LifeInv, UniqueNames, [Next]_vars PROVE [Life!LifeNext]_(Life!lifeVars)
<1> USE DEF donorVars, brokerVars, clusterVars, historyVars
<1>1. ASSUME UNCHANGED <<req, dpod, won, ran, spod>> PROVE UNCHANGED Life!lifeVars
  BY <1>1, UntouchedStill, StillLives DEF Key
<1>2. CASE UNCHANGED vars
  BY <1>1, <1>2 DEF vars
<1>3. ASSUME Next PROVE [Life!LifeNext]_(Life!lifeVars)
  BY <1>1, <1>3, HandlerLives, WorkerLives, PodLives, DeletedLives, CrashLives
     DEF Next, ProtocolStep, AckWaitExpires, Deliver, Crash
<1> QED BY <1>2, <1>3

\* The stealing leads every workload through its life, under the conditions of
\* the contract: it is decided once, the donor stores its pod after the
\* decision, only the thief runs it, beside no other pod of its name, and what
\* either cluster has of it changes one step at a time.
THEOREM StealingLivesTheorem ==
  ASSUME UniqueNames,
         Budget["fault"] = 0, Budget["slow"] = 0, Budget["expire"] = 0
  PROVE  Spec => ImplementsLife
<1>1. Init => LifeInv
  <2> SUFFICES ASSUME Init PROVE LifeInv
    OBVIOUS
  <2>1. \A s \in Stealers, p \in Pods : PodOK(s, p)
    BY DEF Init, PodOK
  <2>2. \A k \in Keys : PlaceOK(k)
    BY DEF Init, PlaceOK
  <2>3. \A r \in Requests : DecidedOK(r)
    BY DEF Init, DecidedOK
  <2> QED BY <2>1, <2>2, <2>3, RefInvInit DEF LifeInv
<1>2. Init => Life!LifeInit
  <2> SUFFICES ASSUME Init PROVE Life!LifeInit
    OBVIOUS
  <2>1. ASSUME NEW r \in Requests
        PROVE  Chosen(r) = Pending /\ PhaseOf(r) = "none" /\ PlaceOf(r) = "none"
    <3>1. Chosen(r) = Pending
      BY OwnersAssumption, ChosenIs DEF Init
    <3>2. dpod[Key(r)] = None /\ None \notin Requests /\ req[r].pc = "new"
      BY KeyType, RequestsAssumption DEF Init
    <3> QED BY <3>1, <3>2, OwnersAssumption DEF PhaseOf, PlaceOf
  <2> QED BY <2>1 DEF Life!LifeInit
<1>3. LifeInv /\ [Next]_vars => LifeInv'
  BY LifeInvStep
<1>4. LifeInv /\ [Next]_vars => [Life!LifeNext]_(Life!lifeVars)
  BY StepLives
<1> QED BY <1>1, <1>2, <1>3, <1>4, PTL DEF Spec, ImplementsLife, Life!LifeSpec
==============================================================================
