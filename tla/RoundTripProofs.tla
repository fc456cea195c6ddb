--------------------------- MODULE RoundTripProofs ---------------------------
(***************************************************************************)
(* Theorems about RoundTrip: how clients that present what they were       *)
(* handed are answered, and what comes of presenting something else.       *)
(***************************************************************************)
EXTENDS RoundTrip, ExecutionAnswersProofs

(* The receipts last longer than the round trips take.                     *)
InTime ==
    /\ clock = 0
    /\ \A s \in Server : req[s].ts = 0
    /\ \A r \in Stored(receipts) : receipts[r].expires_at > 0

(* What a client was handed is in the store, for the plan it works on.     *)
Handed ==
    /\ held \in [Server -> Key \cup {None}]
    /\ \A s \in Server : held[s] # None => Holds(held[s]) /\ held[s].plan_hash = Task[s]

(* A call that presents what was handed out, or nothing.                   *)
Fitting(d) ==
    /\ calls[d].signals \in Plan
    /\ IsExecute(calls[d]) => Holds(KeyOf(d)) /\ KeyOf(d).plan_hash = calls[d].signals

NoBlame == {None, "REPLAY_DETECTED"}

Honest ==
    /\ \A d \in 1..Len(calls) : d \notin misused => Fitting(d)
    /\ \A s \in Server, d \in Decision : Serves(s, d) /\ d \notin misused =>
          calls[d].signals = Task[s] /\ req[s].error \in NoBlame
    /\ \A a \in replies : a.decision_id \notin misused => a.error \in NoBlame

(* Receipt r is not stored, and nobody but s may be about to store it.     *)
Unknown(s, r) ==
    /\ r \notin Stored(receipts)
    /\ \A t \in Server : t # s /\ req[t].receipt # None => req[t].receipt.receipt_id # r

(* Call d presents a key that nothing can be consumed with: the receipt is *)
(* stored under another binding, or nobody has it.                         *)
Foreign(s, d) ==
    LET key == KeyOf(d) IN
    \/ receipts[key.receipt_id] # NoRow /\ BindingOf(receipts, key.receipt_id) # key
    \/ req[s].receipt = key /\ Unknown(s, key.receipt_id)

(* A misused call is stopped by the assessment, or presents such a key by  *)
(* the time it is checked.                                                 *)
Harmless(s, d) ==
    /\ pc[s] \notin {"insert_replay", "mark_consumed", "commit", "log_consumed", "log_accepted"}
    /\ pc[s] = "respond" => req[s].outcome # "ALLOW"
    /\ \/ pc[s] = "log_assessed" /\ req[s].outcome = "ALLOW"
       \/ pc[s] \in {"begin", "check"}
       => Foreign(s, d)

(* The exception: signals that need no confirmation, with what was handed  *)
(* out.                                                                    *)
Exempt(d) == BaseAction(calls[d].signals) = "ALLOW" /\ Holds(KeyOf(d))

Contained(d) ==
    /\ ~Recorded(d, "receipt.consumed")
    /\ \A a \in replies : a.decision_id = d => a.outcome # "ALLOW"
    /\ \A s \in Server : Serves(s, d) => Harmless(s, d)

Misusing ==
    /\ misused \subseteq 1..Len(calls)
    /\ \A d \in misused : IsExecute(calls[d]) /\ (Exempt(d) \/ Contained(d))

RInv == AInv /\ InTime /\ Handed /\ Honest /\ Misusing

-----------------------------------------------------------------------------
(* What moves.                                                             *)

(* A step of the process of client s, and what its client makes of it.     *)
Acts(s) ==
    \/ Send(s) \/ Misuse(s) \/ Serve(s)
    \/ (Restart(s) \/ StatementFails(s) \/ Crash(s)) /\ UNCHANGED client

(* Every step is one of ExecutionControl, and the clock stands still.      *)
LEMMA Steps ==
    ASSUME [RoundTripNext]_roundTripVars
    PROVE  /\ [Next]_vars /\ clock' = clock
           /\ UNCHANGED roundTripVars \/ \E s \in Server : Acts(s) /\ Moves(s)
<1>1. ASSUME NEW s \in Server, Acts(s) PROVE Moves(s)
  BY <1>1 DEF Acts, Send, Misuse, Serve, Moves
<1>2. UNCHANGED roundTripVars \/ \E s \in Server : Acts(s)
  BY DEF RoundTripNext, GetsOn, Recover, Disturb, Acts
<1>3. ASSUME NEW s \in Server, Moves(s) PROVE Next
  BY <1>3 DEF Next, Moves
<1>4. UNCHANGED roundTripVars => UNCHANGED vars /\ clock' = clock
  BY DEF roundTripVars, vars
<1> QED  BY <1>1, <1>2, <1>3, <1>4, ClockStays

(* The clients change at an answer only, and misused at a misuse.          *)
LEMMA ClientSteps ==
    ASSUME NEW s \in Server, Acts(s)
    PROVE  \/ UNCHANGED client
           \/ Respond(s) /\ Learn(s)
           \/ Misuse(s)
<1>1. ASSUME Serve(s), pc[s] = "respond" PROVE Respond(s) /\ Learn(s)
  BY <1>1 DEF Serve, Handle, LogAssessed, Find, Issue, LogIssued, LogReused, BeginConsume,
              CheckReceipt, InsertReplay, MarkConsumed, CommitConsume, LogConsumed,
              LogAccepted, LogRejected, BusyTimeout, IssueConflict, Writing
<1> QED  BY <1>1 DEF Acts, Send, Serve

(* A call that is received gets the next number, and a handler that starts *)
(* from its assessment or answers it with a failure at once.               *)
LEMMA Reception ==
    ASSUME TypeInv, NEW s \in Server, Receive(s) \/ ReceiveAndFail(s),
           NEW call \in Call, calls' = Append(calls, call)
    PROVE  LET d == Len(calls) + 1 IN
           /\ d \in Decision /\ d \notin 1..Len(calls) /\ Len(calls') = d
           /\ calls'[d] = call
           /\ \A c \in 1..Len(calls) : calls'[c] = calls[c]
           /\ req'[s].decision_id = d
           /\ \/ /\ Receive(s) /\ pc'[s] = "log_assessed"
                 /\ \E r \in Rid, n \in Nonce :
                      LET out == Assess(call, r, n) IN
                      /\ req'[s].outcome = out.action /\ req'[s].error = out.error
                      /\ req'[s].receipt = out.receipt
              \/ /\ pc'[s] = "respond" /\ req'[s].outcome \in Failures
                 /\ req'[s].error = None /\ req'[s].receipt = None
<1> DEFINE d == Len(calls) + 1
<1>0. /\ calls \in Seq(Call) /\ Len(calls) \in Nat /\ pc \in [Server -> Label]
      /\ req \in [Server -> Request] /\ Len(calls) < MaxCalls /\ MaxCalls \in Nat
  BY ControlAssumption DEF TypeInv, Typed, TypeOK, Receive, ReceiveAndFail
<1>1. \A other \in Call :
         /\ Len(Append(calls, other)) = d /\ Append(calls, other)[d] = other
         /\ \A c \in 1..Len(calls) : Append(calls, other)[c] = calls[c]
  BY <1>0
<1>2. \A other \in Call : calls' = Append(calls, other) => other = call
  BY <1>1
<1>3. Len(calls') = d /\ calls'[d] = call
      /\ \A c \in 1..Len(calls) : calls'[c] = calls[c]
  BY <1>1, <1>2
<1>4. CASE Receive(s)
  <2>1. PICK other \in ClientCalls, r \in Rid, n \in Nonce :
          /\ calls' = Append(calls, other)
          /\ LET out == Assess(other, r, n) IN
             req' = [req EXCEPT ![s] =
                [decision_id |-> Len(calls) + 1, ts |-> clock,
                 outcome |-> out.action, error |-> out.error, receipt |-> out.receipt]]
    BY <1>4 DEF Receive
  <2>2. other = call
    BY <1>2, <2>1, ControlAssumption
  <2>3. pc'[s] = "log_assessed"
    BY <1>0, <1>4 DEF Receive, Goto
  <2> QED  BY <1>0, <1>3, <1>4, <2>1, <2>2, <2>3 DEF Decision
<1>5. CASE ReceiveAndFail(s)
  BY <1>0, <1>3, <1>5 DEF ReceiveAndFail, Goto, Decision, Failures
<1> QED  BY <1>4, <1>5

(* What is wrong with a misused call, if anything is.                      *)
Twisted(call, task, key) ==
    \/ call.signals = "extreme"
    \/ call.signals = "low" /\ call.confirm.key = key
    \/ call.signals \in Plan /\ call.confirm.key.plan_hash # call.signals
    \/ /\ call.signals = task /\ call.confirm.key.plan_hash = task
       /\ \/ call.confirm.key.receipt_id \in Rid \ Used
          \/ call.confirm.key.receipt_id = key.receipt_id /\ call.confirm.key.nonce # key.nonce

(* The calls clients make are calls; so are the misuses.                   *)
LEMMA CallShape ==
    ASSUME Handed, NEW s \in Server
    PROVE  /\ NextCall(s) \in Call /\ NextCall(s).signals = Task[s] /\ Task[s] \in Plan
           /\ IsExecute(NextCall(s)) => /\ held[s] # None /\ NextCall(s).confirm.key = held[s]
           /\ held[s] # None => \A call \in Misuses(s) :
                 call \in Call /\ IsExecute(call) /\ Twisted(call, Task[s], held[s])
<1> DEFINE Exec(signals, key) ==
             [signals |-> signals, confirm |-> [mode |-> "EXECUTE", key |-> key]]
<1>0. Task[s] \in Plan /\ held[s] \in Key \cup {None} /\ Plan \subseteq Signals
  BY RoundTripAssumption DEF Handed, Signals
<1>1. \A signals \in Signals, key \in Key :
         /\ Exec(signals, key) \in Call /\ IsExecute(Exec(signals, key))
         /\ Exec(signals, key).signals = signals /\ Exec(signals, key).confirm.key = key
  BY DEF Call, Confirm, IsExecute
<1>2. CASE held[s] = None
  BY <1>0, <1>2 DEF NextCall, Call, Confirm, IsExecute
<1>3. CASE held[s] # None
  <2>1. NextCall(s) = Exec(Task[s], held[s])
    BY <1>3 DEF NextCall
  <2>2. held[s] \in Key /\ held[s].plan_hash = Task[s]
    BY <1>0, <1>3 DEF Handed
  <2>3. ASSUME NEW call, NEW p \in Plan \ {Task[s]},
               call = Exec(Task[s], [held[s] EXCEPT !.plan_hash = p])
        PROVE  call \in Call /\ IsExecute(call) /\ Twisted(call, Task[s], held[s])
    <3>1. /\ [held[s] EXCEPT !.plan_hash = p] \in Key
          /\ [held[s] EXCEPT !.plan_hash = p].plan_hash # Task[s]
      BY <2>2 DEF Key
    <3> QED  BY <1>0, <1>1, <2>3, <3>1 DEF Twisted
  <2>4. ASSUME NEW call, NEW n \in Nonce \ {held[s].nonce},
               call = Exec(Task[s], [held[s] EXCEPT !.nonce = n])
        PROVE  call \in Call /\ IsExecute(call) /\ Twisted(call, Task[s], held[s])
    <3>1. /\ [held[s] EXCEPT !.nonce = n] \in Key
          /\ [held[s] EXCEPT !.nonce = n].plan_hash = Task[s]
          /\ [held[s] EXCEPT !.nonce = n].receipt_id = held[s].receipt_id
          /\ [held[s] EXCEPT !.nonce = n].nonce # held[s].nonce
      BY <2>2 DEF Key
    <3> QED  BY <1>0, <1>1, <2>4, <3>1 DEF Twisted
  <2>5. ASSUME NEW call, NEW id \in NextUnused,
               call = Exec(Task[s], [held[s] EXCEPT !.receipt_id = id])
        PROVE  call \in Call /\ IsExecute(call) /\ Twisted(call, Task[s], held[s])
    <3>1. /\ [held[s] EXCEPT !.receipt_id = id] \in Key
          /\ [held[s] EXCEPT !.receipt_id = id].plan_hash = Task[s]
          /\ [held[s] EXCEPT !.receipt_id = id].receipt_id \in Rid \ Used
      BY <2>2 DEF Key, NextUnused
    <3> QED  BY <1>0, <1>1, <2>5, <3>1 DEF Twisted
  <2>6. ASSUME NEW call, NEW signals \in Signals \ {Task[s], "absent"},
               call = Exec(signals, held[s])
        PROVE  call \in Call /\ IsExecute(call) /\ Twisted(call, Task[s], held[s])
    BY <1>1, <2>2, <2>6 DEF Twisted, Signals
  <2>7. ASSUME NEW call \in Misuses(s)
        PROVE  call \in Call /\ IsExecute(call) /\ Twisted(call, Task[s], held[s])
    <3>1. \/ \E p \in Plan \ {Task[s]} : call = Exec(Task[s], [held[s] EXCEPT !.plan_hash = p])
          \/ \E n \in Nonce \ {held[s].nonce} :
                call = Exec(Task[s], [held[s] EXCEPT !.nonce = n])
          \/ \E id \in NextUnused : call = Exec(Task[s], [held[s] EXCEPT !.receipt_id = id])
          \/ \E signals \in Signals \ {Task[s], "absent"} : call = Exec(signals, held[s])
      BY <2>7 DEF Misuses
    <3> QED  BY <3>1, <2>3, <2>4, <2>5, <2>6
  <2> QED  BY <1>0, <1>1, <1>3, <2>1, <2>2, <2>7
<1> QED  BY <1>2, <1>3

-----------------------------------------------------------------------------
(* Clients that follow the answers.                                        *)

(* Nothing expires.                                                        *)
LEMMA InTimeStep ==
    ASSUME AInv, InTime, [Next]_vars, clock' = clock
    PROVE  InTime'
<1>0. /\ TypeInv /\ IInv /\ receipts \in [Rid -> Row \cup {NoRow}] /\ req \in [Server -> Request]
      /\ TTL \in Nat \ {0}
  BY ReceiptsAssumption DEF AInv, LogInv, IInv, TypeInv, Typed, TypeOK
<1>1. \A s \in Server : req'[s].ts = 0
  <2>1. CASE UNCHANGED <<store, txn, pc, req, calls, replies>>
    BY <2>1 DEF InTime
  <2>2. ASSUME NEW s \in Server, Moves(s), NEW t \in Server PROVE req'[t].ts = 0
    BY <1>0, <2>2, StampStep, OthersStay DEF InTime
  <2> QED  BY <2>1, <2>2, StepCases
<1>2. ASSUME NEW r \in Stored(receipts') PROVE receipts'[r].expires_at > 0
  <2>1. CASE \E s \in Server : Issue(s)
    <3>1. PICK s \in Server : Issue(s)
      BY <2>1
    <3>2. CASE r = req[s].receipt.receipt_id
      <4>1. receipts'[r] = NewRow(req[s].receipt, req[s].ts)
        BY <1>0, <3>1, <3>2 DEF Issue, Stored
      <4> QED  BY <1>0, <4>1 DEF NewRow, InTime
    <3>3. CASE r # req[s].receipt.receipt_id
      BY <1>0, <3>1, <3>3 DEF Issue, Stored, InTime
    <3> QED  BY <3>2, <3>3
  <2>2. CASE ~\E s \in Server : Issue(s)
    BY <1>0, <2>2, RowsStep DEF InTime
  <2> QED  BY <2>1, <2>2
<1> QED  BY <1>1, <1>2 DEF InTime

(* What is handed out is stored and for the plan of the client.            *)
LEMMA HandedStep ==
    ASSUME RInv, [RoundTripNext]_roundTripVars
    PROVE  Handed'
<1>0. [Next]_vars /\ Grows /\ Handed /\ TypeInv /\ AInv
  BY Steps, Growth DEF RInv, AInv, LogInv, IInv
<1>1. \A key : Holds(key) => Holds(key)'
  BY <1>0, HoldsStable
<1>2. CASE held' = held
  BY <1>0, <1>1, <1>2 DEF Handed
<1>3. ASSUME NEW s \in Server, Moves(s), Respond(s), Learn(s), held' # held PROVE Handed'
  <2> DEFINE d == req[s].decision_id
             key == req[s].receipt
  <2>1. /\ req[s].outcome = "REQUIRE_CONFIRM" /\ key # None /\ d \notin misused
        /\ held' = [held EXCEPT ![s] = key]
    BY <1>3 DEF Learn
  <2>2. pc[s] = "respond" /\ Serves(s, d) /\ d \in Decision /\ d \in 1..Len(calls)
    BY <1>0, <1>3, ControlAssumption DEF Respond, Serves, Decision, TypeInv, Typed, Serving
  <2>3. GoodAnswer(AnswerOf(s))
    BY <1>0, <2>2 DEF AInv, LogInv, AllAnswers
  <2>4. Holds(key) /\ key.plan_hash = calls[d].signals
    BY <2>1, <2>3 DEF GoodAnswer, AnswerOf
  <2>5. calls[d].signals = Task[s]
    BY <2>1, <2>2 DEF RInv, Honest
  <2>6. held'[s] = key /\ key \in Key /\ \A t \in Server : t # s => held'[t] = held[t]
    BY <1>0, <2>1, <2>4 DEF Handed, Holds
  <2>7. held' \in [Server -> Key \cup {None}]
    BY <1>0, <2>1, <2>6 DEF Handed
  <2>8. Holds(held[s])'
    <3> PICK k : k = key
      OBVIOUS
    <3>1. Holds(k)'
      BY <1>1, <2>4
    <3>2. held'[s] = k
      BY <2>6
    <3> QED  BY <3>1, <3>2 DEF Holds
  <2> QED  BY <1>0, <1>1, <2>4, <2>5, <2>6, <2>7, <2>8 DEF Handed
<1> QED  BY <1>2, <1>3, Steps, ClientSteps DEF client, Misuse, roundTripVars

(* A call is received from the client, as it follows the answers or on     *)
(* purpose not, or the calls stay what they are.                           *)
LEMMA CallsStep ==
    ASSUME NEW s \in Server, Acts(s)
    PROVE  \/ /\ Receive(s) \/ ReceiveAndFail(s)
              /\ calls' = Append(calls, NextCall(s)) /\ FreshDraw(s) /\ misused' = misused
           \/ /\ Misuse(s) /\ Receive(s) /\ FreshDraw(s) /\ misused = {} /\ held[s] # None
              /\ misused' = {Len(calls')} /\ held' = held
              /\ \E call \in Misuses(s) : calls' = Append(calls, call)
           \/ calls' = calls /\ misused' = misused
<1>1. CASE Send(s)
  BY <1>1 DEF Send, client
<1>2. CASE Misuse(s)
  BY <1>2 DEF Misuse, SoFarSoGood
<1>3. CASE Serve(s)
  <2>1. calls' = calls
    BY <1>3 DEF Serve, Handle, LogAssessed, Find, Issue, LogIssued, LogReused, BeginConsume,
                CheckReceipt, InsertReplay, MarkConsumed, CommitConsume, LogConsumed,
                LogAccepted, LogRejected, Respond, BusyTimeout, IssueConflict, Abort
  <2>2. misused' = misused
    BY <1>3 DEF Serve, Learn, client
  <2> QED  BY <2>1, <2>2
<1>4. CASE (Restart(s) \/ StatementFails(s) \/ Crash(s)) /\ UNCHANGED client
  BY <1>4 DEF Restart, StatementFails, Abort, Crash, client
<1> QED  BY <1>1, <1>2, <1>3, <1>4 DEF Acts

(* Whoever presents what was handed out finds the receipt as it was, or    *)
(* his own key in the replay index.                                        *)
LEMMA FittingVerdict ==
    ASSUME TypeInv, StoreAtomic, InTime, NEW d \in 1..Len(calls), IsExecute(calls[d]), Fitting(d)
    PROVE  ConsumeVerdict(receipts, replay_index, KeyOf(d), 0) \in {"ok", "REPLAY_DETECTED"}
<1> DEFINE key == KeyOf(d)
           row == receipts[key.receipt_id]
<1>0. /\ key \in Key /\ key.receipt_id \in Rid /\ row \in Row /\ row # NoRow
      /\ BindingOf(receipts, key.receipt_id) = key
  BY DEF Fitting, Holds, Key, TypeInv, Typed, TypeOK
<1>1. row.plan_hash = key.plan_hash /\ row.nonce = key.nonce
  BY <1>0 DEF BindingOf, Binding
<1>2. row.expires_at \in Nat /\ row.expires_at > 0
  BY <1>0 DEF InTime, Stored, Row
<1>3. CASE row.status = "active"
  BY <1>0, <1>1, <1>2, <1>3 DEF ConsumeVerdict
<1>4. CASE row.status # "active"
  <2>1. row.status = "consumed"
    BY <1>0, <1>4 DEF Row
  <2>2. key \in replay_index
    BY <1>0, <2>1 DEF StoreAtomic
  <2> QED  BY <1>0, <1>4, <2>2 DEF ConsumeVerdict
<1> QED  BY <1>3, <1>4

(* So that is all its handler ever says.                                   *)
LEMMA FittingError ==
    ASSUME AInv, InTime, NEW s \in Server, Moves(s), NEW d \in Decision,
           Serves(s, d), Serves(s, d)', Fitting(d), req[s].error \in NoBlame
    PROVE  req'[s].error \in NoBlame
<1>0. /\ TypeInv /\ StoreAtomic /\ Transaction
      /\ pc \in [Server -> Label] /\ req \in [Server -> Request]
      /\ d \in 1..Len(calls) /\ Confirmed(s) = KeyOf(d) /\ CallOf(s) = calls[d]
      /\ req[s].ts = 0 /\ None \in NoBlame
  BY Own DEF AInv, LogInv, IInv, TypeInv, Typed, TypeOK, InTime, NoBlame
<1>1. CASE Receive(s) \/ ReceiveAndFail(s)
  BY <1>1 DEF Receive, ReceiveAndFail, Serves
<1>2. CASE LogAssessed(s) \/ Issue(s) \/ LogIssued(s) \/ LogReused(s) \/ BeginConsume(s)
              \/ InsertReplay(s) \/ CommitConsume(s) \/ LogConsumed(s) \/ LogAccepted(s)
  BY <1>0, <1>2
     DEF LogAssessed, Issue, LogIssued, LogReused, BeginConsume, InsertReplay, CommitConsume,
         LogConsumed, LogAccepted
<1>3. CASE Find(s) \/ LogRejected(s)
  BY <1>0, <1>3 DEF Find, LogRejected, Request
<1>4. CASE CheckReceipt(s)
  <2>1. IsExecute(calls[d])
    BY <1>0, <1>4 DEF CheckReceipt, TypeInv, Typed, Serving, Executing, InTxn
  <2>2. ConsumeVerdict(receipts, replay_index, Confirmed(s), req[s].ts)
           \in {"ok", "REPLAY_DETECTED"}
    BY <1>0, <2>1, FittingVerdict
  <2> QED  BY <1>0, <1>4, <2>2 DEF CheckReceipt, Request, NoBlame
<1>5. CASE MarkConsumed(s)
  <2>1. ConsumeVerdict(receipts, replay_index, Confirmed(s), req[s].ts) = "ok"
    BY <1>0, <1>5 DEF MarkConsumed, Transaction, Checked
  <2>2. Confirmed(s) \in Key
    BY <1>0, <1>5, ConfirmedKey DEF MarkConsumed, Executing, InTxn
  <2>3. Usable(receipts[Confirmed(s).receipt_id], req[s].ts)
    <3>1. /\ receipts[Confirmed(s).receipt_id] # NoRow
          /\ receipts[Confirmed(s).receipt_id].status = "active"
          /\ Confirmed(s).receipt_id \in Rid
      BY <2>1, <2>2, VerdictOk DEF Key
    <3>2. receipts[Confirmed(s).receipt_id].expires_at > 0
      BY <3>1 DEF InTime, Stored
    <3> QED  BY <1>0, <3>1, <3>2 DEF Usable
  <2> QED  BY <1>5, <2>3 DEF MarkConsumed
<1>6. CASE BusyTimeout(s) \/ IssueConflict(s) \/ StatementFails(s)
  BY <1>0, <1>6 DEF BusyTimeout, IssueConflict, StatementFails, Abort, Request
<1>7. CASE Respond(s) \/ Crash(s) \/ Restart(s)
  BY <1>0, <1>7 DEF Respond, Crash, Restart, Goto, Serves
<1> QED  BY <1>1, <1>2, <1>3, <1>4, <1>5, <1>6, <1>7 DEF Moves, Handle

(* A call the client makes as it follows the answers fits.                 *)
LEMMA NewCallFits ==
    ASSUME RInv, NEW s \in Server, Acts(s), [Next]_vars,
           NEW d \in 1..Len(calls'), d \notin 1..Len(calls), d \notin misused'
    PROVE  /\ Fitting(d)' /\ calls'[d].signals = Task[s]
           /\ Serves(s, d)' => req'[s].error \in NoBlame
<1>0. /\ TypeInv /\ Handed /\ Grows /\ calls \in Seq(Call) /\ Len(calls) \in Nat
      /\ misused \subseteq 1..Len(calls)
  BY Growth DEF RInv, AInv, LogInv, IInv, TypeInv, Typed, TypeOK, Misusing
<1>1. \A call \in Call : calls' = Append(calls, call) => Len(calls') = Len(calls) + 1
  BY <1>0
<1>2. CASE Misuse(s) /\ misused' = {Len(calls')} /\ \E call \in Misuses(s) : calls' = Append(calls, call)
  <2>1. held[s] # None
    BY <1>2 DEF Misuse
  <2>2. Len(calls') = Len(calls) + 1
    BY <1>0, <1>1, <1>2, <2>1, CallShape
  <2> QED  BY <1>0, <1>2, <2>2
<1>3. CASE /\ Receive(s) \/ ReceiveAndFail(s)
           /\ calls' = Append(calls, NextCall(s))
  <2> DEFINE call == NextCall(s)
  <2>1. /\ call \in Call /\ call.signals = Task[s] /\ Task[s] \in Plan
        /\ IsExecute(call) => held[s] # None /\ call.confirm.key = held[s]
    BY <1>0, CallShape
  <2>2. /\ d = Len(calls) + 1 /\ calls'[d] = call
        /\ \/ \E r \in Rid, n \in Nonce : req'[s].error = Assess(call, r, n).error
           \/ req'[s].error = None
    BY <1>0, <1>1, <1>3, <2>1, Reception
  <2>3. IsExecute(call) => Holds(call.confirm.key) /\ call.confirm.key.plan_hash = call.signals
    BY <1>0, <2>1 DEF Handed
  <2>4. Fitting(d)'
    <3> PICK key : key = call.confirm.key
      OBVIOUS
    <3>1. KeyOf(d)' = key
      BY <2>2 DEF KeyOf
    <3>2. IsExecute(call) => Holds(key)' /\ key.plan_hash = call.signals
      BY <1>0, <2>3, HoldsStable
    <3>3. IsExecute(calls'[d]) => Holds(KeyOf(d))' /\ KeyOf(d)'.plan_hash = calls'[d].signals
      BY <2>2, <3>1, <3>2 DEF Holds
    <3> QED  BY <2>1, <2>2, <3>3 DEF Fitting, IsExecute
  <2>5. \A r, n : Assess(call, r, n).error = None
    BY <2>1, <2>3 DEF Assess, Guardrail, NextCall, BaseAction, IsExecute
  <2> QED  BY <2>1, <2>2, <2>4, <2>5 DEF NoBlame
<1> QED  BY <1>0, <1>2, <1>3, CallsStep

(* Honest clients are told nothing but that their receipt was used.        *)
LEMMA HonestStep ==
    ASSUME RInv, [RoundTripNext]_roundTripVars
    PROVE  Honest'
<1>0. /\ [Next]_vars /\ AInv /\ InTime /\ TypeInv /\ Grows /\ Served /\ Honest /\ Misusing
      /\ calls \in Seq(Call) /\ Len(calls) \in Nat
  BY Steps, Growth DEF RInv, AInv, LogInv, IInv, TypeInv, Typed, TypeOK
<1>1. ASSUME NEW d \in 1..Len(calls), Fitting(d) PROVE Fitting(d)'
  <2>1. calls'[d] = calls[d] /\ KeyOf(d)' = KeyOf(d)
    BY <1>0, <1>1, ReasonsStable
  <2>2. Holds(KeyOf(d)) => Holds(KeyOf(d))'
    <3> PICK key : key = KeyOf(d)
      OBVIOUS
    <3>1. Holds(key) => Holds(key)'
      BY <1>0, HoldsStable
    <3> QED  BY <2>1, <3>1 DEF Holds
  <2> QED  BY <1>1, <2>1, <2>2 DEF Fitting, IsExecute
<1>2. CASE UNCHANGED roundTripVars
  <2>1. UNCHANGED <<store, txn, pc, req, calls, replies>> /\ misused' = misused
    BY <1>2 DEF roundTripVars, vars, store, txn, client
  <2>2. \A d : Fitting(d)' <=> Fitting(d)
    BY <2>1 DEF Fitting, Holds, KeyOf, IsExecute, BindingOf, store
  <2>3. \A s, d : Serves(s, d)' <=> Serves(s, d)
    BY <2>1 DEF Serves
  <2> QED  BY <1>0, <2>1, <2>2, <2>3 DEF Honest
<1>3. ASSUME NEW s \in Server, Acts(s), Moves(s) PROVE Honest'
  <2>1. misused \subseteq misused'
    BY <1>3, CallsStep
  <2>2. ASSUME NEW d \in 1..Len(calls'), d \notin misused' PROVE Fitting(d)'
    <3>1. CASE d \in 1..Len(calls)
      BY <1>0, <1>1, <2>1, <2>2, <3>1 DEF Honest
    <3>2. CASE d \notin 1..Len(calls)
      BY <1>0, <1>3, <2>2, <3>2, NewCallFits
    <3> QED  BY <3>1, <3>2
  <2>3. ASSUME NEW t \in Server, NEW d \in Decision, Serves(t, d), Serves(t, d)', d \notin misused'
        PROVE  calls'[d].signals = Task[t] /\ req'[t].error \in NoBlame
    <3>1. d \in 1..Len(calls) /\ d \notin misused /\ calls'[d] = calls[d]
      BY <1>0, <2>1, <2>3, Own, ReasonsStable DEF AInv
    <3>2. Fitting(d) /\ calls[d].signals = Task[t] /\ req[t].error \in NoBlame
      BY <1>0, <2>3, <3>1 DEF Honest
    <3>3. CASE t = s
      BY <1>0, <1>3, <2>3, <3>1, <3>2, <3>3, FittingError
    <3>4. CASE t # s
      BY <1>0, <1>3, <3>1, <3>2, <3>4, OthersStay
    <3> QED  BY <3>3, <3>4
  <2>4. ASSUME NEW t \in Server, NEW d \in Decision, ~Serves(t, d), Serves(t, d)', d \notin misused'
        PROVE  calls'[d].signals = Task[t] /\ req'[t].error \in NoBlame
    <3>1. t = s
      BY <1>0, <1>3, <2>4, OthersStay DEF Serves
    <3>2. d = Len(calls) + 1 /\ Len(calls') = Len(calls) + 1
      BY <1>0, <1>3, <2>4, <3>1, ServesStep
    <3>3. d \in 1..Len(calls') /\ d \notin 1..Len(calls)
      BY <1>0, <3>2
    <3> QED  BY <1>0, <1>3, <2>4, <3>1, <3>3, NewCallFits
  <2>5. ASSUME NEW a \in replies', a.decision_id \notin misused' PROVE a.error \in NoBlame
    <3>1. CASE a \in replies
      BY <1>0, <2>1, <2>5, <3>1 DEF Honest
    <3>2. CASE a = AnswerOf(s) /\ pc[s] = "respond"
      <4>1. Serves(s, a.decision_id) /\ a.decision_id \in Decision /\ a.error = req[s].error
        BY <1>0, <3>2, ControlAssumption
           DEF AnswerOf, Serves, Decision, TypeInv, Typed, Serving
      <4> QED  BY <1>0, <2>1, <2>5, <4>1 DEF Honest
    <3> QED  BY <1>0, <1>3, <3>1, <3>2, RepliesStep
  <2> QED  BY <2>2, <2>3, <2>4, <2>5 DEF Honest
<1> QED  BY <1>2, <1>3, Steps

-----------------------------------------------------------------------------
(* A client that presents something else.                                  *)

(* A handler comes by a receipt that is in the store, or draws one that    *)
(* nobody has.                                                             *)
LEMMA ReceiptMove ==
    ASSUME RInv, [Next]_vars, NEW s \in Server, Acts(s), ~Misuse(s)
    PROVE  \/ req'[s].receipt \in {req[s].receipt, None}
           \/ req'[s].receipt.receipt_id \in Stored(receipts)
           \/ req'[s].receipt.receipt_id \in Rid \ Used
<1>0. /\ TypeInv /\ Handed /\ pc \in [Server -> Label] /\ req \in [Server -> Request]
      /\ receipts \in [Rid -> Row \cup {NoRow}]
  BY DEF RInv, AInv, LogInv, IInv, TypeInv, Typed, TypeOK
<1>1. CASE Send(s)
  <2> DEFINE call == NextCall(s)
  <2>1. /\ call \in Call /\ call.signals = Task[s] /\ Task[s] \in Plan
        /\ IsExecute(call) => held[s] # None /\ call.confirm.key = held[s]
    BY <1>0, CallShape
  <2>2. /\ Receive(s) \/ ReceiveAndFail(s)
        /\ calls' = Append(calls, call) /\ FreshDraw(s) /\ pc[s] = "idle"
    BY <1>1 DEF Send, Receive, ReceiveAndFail
  <2>3. CASE req'[s].receipt = None
    BY <2>3
  <2>4. ASSUME NEW r \in Rid, NEW n \in Nonce, pc'[s] = "log_assessed",
               req'[s].outcome = Assess(call, r, n).action,
               req'[s].receipt = Assess(call, r, n).receipt
        PROVE  \/ req'[s].receipt.receipt_id \in Stored(receipts)
               \/ req'[s].receipt.receipt_id \in Rid \ Used
    <3>1. CASE IsExecute(call)
      <4>1. Holds(held[s]) /\ held[s].plan_hash = call.signals
        BY <1>0, <2>1, <3>1 DEF Handed
      <4>2. req'[s].receipt = held[s]
        BY <2>1, <2>4, <3>1, <4>1 DEF Assess, Guardrail, BaseAction, IsExecute
      <4> QED  BY <4>1, <4>2 DEF Holds, Key, Stored
    <3>2. CASE ~IsExecute(call)
      <4>1. call.confirm.mode = "NONE"
        BY <3>2 DEF NextCall, IsExecute
      <4>2. req'[s].outcome = "REQUIRE_CONFIRM" /\ req'[s].receipt = Binding(r, Task[s], n)
        BY <2>1, <2>4, <4>1 DEF Assess, Guardrail, BaseAction
      <4>3. req'[s].receipt # None
        BY <2>1, <4>2, ReceiptsAssumption DEF Binding
      <4> QED  BY <2>2, <2>4, <4>2, <4>3 DEF FreshDraw, NextUnused
    <3> QED  BY <3>1, <3>2
  <2> QED  BY <1>0, <2>1, <2>2, <2>3, <2>4, Reception
<1>2. CASE Serve(s)
  <2>0. Handle(s) /\ FreshDraw(s)
    BY <1>2 DEF Serve
  <2>1. CASE LogAssessed(s) \/ Issue(s) \/ LogIssued(s) \/ LogReused(s) \/ BeginConsume(s)
                \/ InsertReplay(s) \/ CommitConsume(s) \/ LogConsumed(s) \/ LogAccepted(s)
    BY <1>0, <2>1
       DEF LogAssessed, Issue, LogIssued, LogReused, BeginConsume, InsertReplay, CommitConsume,
           LogConsumed, LogAccepted
  <2>2. CASE Find(s)
    <3>1. ASSUME NEW r \in LatestActive(receipts, req[s].receipt.plan_hash, req[s].ts)
          PROVE  /\ r \in Stored(receipts) /\ BindingOf(receipts, r).receipt_id = r
      BY DEF LatestActive, ActiveFor, Stored, NoRow, BindingOf, Binding
    <3>2. CASE req' = req
      BY <3>2
    <3>3. CASE \E r \in LatestActive(receipts, req[s].receipt.plan_hash, req[s].ts) :
                  req' = [req EXCEPT ![s] = [@ EXCEPT !.receipt = BindingOf(receipts, r)]]
      <4>1. PICK r \in LatestActive(receipts, req[s].receipt.plan_hash, req[s].ts) :
                  req' = [req EXCEPT ![s] = [@ EXCEPT !.receipt = BindingOf(receipts, r)]]
        BY <3>3
      <4>2. req'[s].receipt = BindingOf(receipts, r)
        BY <1>0, <4>1 DEF Request
      <4> QED  BY <3>1, <4>2
    <3> QED  BY <2>2, <3>2, <3>3 DEF Find
  <2>3. CASE CheckReceipt(s) \/ MarkConsumed(s)
    BY <1>0, <2>3 DEF CheckReceipt, MarkConsumed, Request
  <2>4. CASE LogRejected(s)
    <3>1. \/ req'[s].outcome = "REQUIRE_CONFIRM" /\ pc'[s] \in {"respond", "find"}
          \/ req'[s].receipt = None
      BY <1>0, <2>4 DEF LogRejected, Goto, Request
    <3>2. pc[s] = "log_rejected"
      BY <2>4 DEF LogRejected
    <3> QED  BY <2>0, <3>1, <3>2 DEF FreshDraw, NextUnused
  <2>5. CASE BusyTimeout(s) \/ IssueConflict(s)
    BY <1>0, <2>5 DEF BusyTimeout, IssueConflict, Abort, Request
  <2>6. CASE Respond(s)
    BY <1>0, <2>6 DEF Respond, NoReq
  <2> QED  BY <2>0, <2>1, <2>2, <2>3, <2>4, <2>5, <2>6 DEF Handle
<1>3. CASE Restart(s)
  BY <1>3 DEF Restart
<1>4. CASE StatementFails(s) \/ Crash(s)
  <2>1. req'[s].receipt = None
    <3>1. ASSUME StatementFails(s) PROVE req'[s].receipt = None
      BY <1>0, <3>1 DEF StatementFails, Abort, Request
    <3>2. ASSUME Crash(s) PROVE req'[s].receipt = None
      BY <1>0, <3>2 DEF Crash, NoReq
    <3> QED  BY <1>4, <3>1, <3>2
  <2> QED  BY <2>1
<1> QED  BY <1>1, <1>2, <1>3, <1>4 DEF Acts

(* So a receipt that one process presents and nobody has stays unknown.    *)
LEMMA UnknownStays ==
    ASSUME RInv, [Next]_vars, NEW u \in Server, Acts(u), Moves(u), ~Misuse(u),
           NEW s \in Server, NEW key \in Key, req[s].receipt = key, pc[s] # "issue",
           Unknown(s, key.receipt_id)
    PROVE  Unknown(s, key.receipt_id)'
<1> DEFINE id == key.receipt_id
<1>0. /\ TypeInv /\ IInv /\ receipts \in [Rid -> Row \cup {NoRow}] /\ id \in Used
      /\ id \in Rid /\ key # None
  BY ReceiptsAssumption DEF RInv, AInv, LogInv, IInv, TypeInv, Typed, TypeOK, Used, Key
<1>1. id \notin Stored(receipts')
  <2>1. CASE \E t \in Server : Issue(t)
    <3>1. PICK t \in Server : Issue(t)
      BY <2>1
    <3>2. pc[t] = "issue" /\ t # s
      BY <3>1 DEF Issue
    <3>3. req[t].receipt \in Key
      BY <1>0, <3>2 DEF TypeInv, Typed, Serving, Offering
    <3>4. req[t].receipt.receipt_id # id
      BY <3>2, <3>3, ReceiptsAssumption DEF Unknown, Key
    <3> QED  BY <1>0, <3>1, <3>4 DEF Issue, Stored, Unknown
  <2>2. CASE ~\E t \in Server : Issue(t)
    BY <1>0, <2>2, RowsStep DEF Unknown
  <2> QED  BY <2>1, <2>2
<1>2. ASSUME NEW t \in Server, t # s, req'[t].receipt # None
      PROVE  req'[t].receipt.receipt_id # id
  <2>1. CASE t # u
    BY <1>0, <1>2, <2>1, OthersStay DEF Unknown
  <2>2. CASE t = u
    BY <1>0, <1>2, <2>2, ReceiptMove DEF Unknown
  <2> QED  BY <2>1, <2>2
<1> QED  BY <1>1, <1>2 DEF Unknown, Stored

(* A binding in the store stays what it is, too.                           *)
LEMMA ForeignStays ==
    ASSUME RInv, [Next]_vars, NEW u \in Server, Acts(u), Moves(u), ~Misuse(u),
           NEW s \in Server, pc[s] # "issue", req'[s].receipt = req[s].receipt,
           NEW d \in 1..Len(calls), IsExecute(calls[d]), Foreign(s, d)
    PROVE  Foreign(s, d)'
<1> PICK key : key = KeyOf(d)
  OBVIOUS
<1>0. TypeInv /\ Grows /\ KeyOf(d)' = key /\ key \in Key
  <2>1. TypeInv /\ Grows
    BY Growth DEF RInv, AInv, LogInv, IInv
  <2>2. KeyOf(d)' = KeyOf(d)
    BY <2>1, ReasonsStable
  <2>3. calls[d] \in Call
    BY <2>1 DEF TypeInv, Typed, TypeOK
  <2> QED  BY <2>1, <2>2, <2>3, ExecuteKey DEF KeyOf
<1>1. CASE receipts[key.receipt_id] # NoRow /\ BindingOf(receipts, key.receipt_id) # key
  BY <1>0, <1>1 DEF Grows, Foreign, BindingOf, Binding, Key
<1>2. CASE req[s].receipt = key /\ Unknown(s, key.receipt_id)
  <2>1. Unknown(s, key.receipt_id)'
    BY <1>0, <1>2, UnknownStays
  <2> QED  BY <1>0, <1>2, <2>1 DEF Foreign, Unknown
<1> QED  BY <1>1, <1>2 DEF Foreign

(* The handler of a misused call: the assessment notices another plan and  *)
(* what may not be executed, the check of the receipt a foreign key, and   *)
(* after that the call is no longer on its way to an execution.            *)
LEMMA HarmlessMove ==
    ASSUME RInv, [Next]_vars, NEW s \in Server, Acts(s), Moves(s), ~Misuse(s),
           NEW d \in misused, Serves(s, d), Serves(s, d)', Harmless(s, d)
    PROVE  Harmless(s, d)'
<1>0. /\ AInv /\ AInv' /\ TypeInv /\ Grows
      /\ pc \in [Server -> Label] /\ pc' \in [Server -> Label]
      /\ req \in [Server -> Request] /\ d \in Decision /\ d \in 1..Len(calls)
      /\ calls[d] \in Call /\ IsExecute(calls[d])
      /\ CallOf(s) = calls[d] /\ Confirmed(s) = KeyOf(d) /\ KeyOf(d) \in Key
  <2>1. AInv /\ AInv' /\ TypeInv /\ Grows /\ d \in 1..Len(calls) /\ d \in Decision
    BY AInvNext, Growth, ControlAssumption
       DEF RInv, Misusing, AInv, LogInv, IInv, TypeInv, Typed, Decision
  <2>2. IsExecute(calls[d])
    BY DEF RInv, Misusing
  <2>3. calls[d] \in Call /\ CallOf(s) = calls[d] /\ Confirmed(s) = KeyOf(d)
    BY <2>1, Own DEF AInv
  <2>4. pc \in [Server -> Label] /\ pc' \in [Server -> Label] /\ req \in [Server -> Request]
    BY <2>1 DEF AInv, LogInv, IInv, TypeInv, Typed, TypeOK
  <2> QED  BY <2>1, <2>2, <2>3, <2>4, ExecuteKey DEF KeyOf
<1>1. CASE pc[s] = "log_assessed" /\ req[s].outcome # "ALLOW"
  <2>1. \/ pc'[s] = "find"
        \/ pc'[s] = "respond" /\ req'[s].outcome # "ALLOW"
    <3>1. CASE LogAssessed(s)
      BY <1>0, <1>1, <3>1 DEF LogAssessed, Goto
    <3>2. CASE BusyTimeout(s) \/ StatementFails(s)
      BY <1>0, <3>2 DEF BusyTimeout, StatementFails, Abort, Goto, Request
    <3>3. CASE Crash(s)
      BY <1>0, <3>3 DEF Crash, Goto, Serves
    <3> QED
      BY <1>1, <3>1, <3>2, <3>3
         DEF Moves, Handle, Receive, ReceiveAndFail, Find, Issue, LogIssued, LogReused,
             BeginConsume, CheckReceipt, InsertReplay, MarkConsumed, CommitConsume, LogConsumed,
             LogAccepted, LogRejected, Respond, IssueConflict, Restart
  <2> QED  BY <2>1 DEF Harmless
<1>2. CASE \/ pc[s] = "log_assessed" /\ req[s].outcome = "ALLOW"
           \/ pc[s] \in {"begin", "check"}
  <2>1. Foreign(s, d)
    BY <1>2 DEF Harmless
  <2>2. ConsumeVerdict(receipts, replay_index, KeyOf(d), req[s].ts) # "ok"
    <3>1. CASE receipts[KeyOf(d).receipt_id] = NoRow
      BY <3>1 DEF ConsumeVerdict
    <3>2. CASE receipts[KeyOf(d).receipt_id] # NoRow
      <4>1. BindingOf(receipts, KeyOf(d).receipt_id) # KeyOf(d)
        BY <1>0, <2>1, <3>2 DEF Foreign, Unknown, Stored, Key
      <4>2. \/ receipts[KeyOf(d).receipt_id].plan_hash # KeyOf(d).plan_hash
            \/ receipts[KeyOf(d).receipt_id].nonce # KeyOf(d).nonce
        BY <1>0, <4>1 DEF BindingOf, Binding, Key
      <4> QED  BY <3>2, <4>2 DEF ConsumeVerdict
    <3> QED  BY <3>1, <3>2
  <2>3. \/ pc'[s] \in {"begin", "check"} /\ req'[s].receipt = req[s].receipt
        \/ pc'[s] = "log_rejected"
        \/ pc'[s] = "respond" /\ req'[s].outcome # "ALLOW"
    <3>1. CASE LogAssessed(s)
      BY <1>0, <1>2, <3>1 DEF LogAssessed, Goto
    <3>2. CASE BeginConsume(s)
      BY <1>0, <3>2 DEF BeginConsume, Goto
    <3>3. CASE CheckReceipt(s)
      BY <1>0, <2>2, <3>3 DEF CheckReceipt, Goto
    <3>4. CASE BusyTimeout(s) \/ StatementFails(s)
      BY <1>0, <3>4 DEF BusyTimeout, StatementFails, Abort, Goto, Request
    <3>5. CASE Crash(s)
      BY <1>0, <3>5 DEF Crash, Goto, Serves
    <3> QED
      BY <1>2, <3>1, <3>2, <3>3, <3>4, <3>5
         DEF Moves, Handle, Receive, ReceiveAndFail, Find, Issue, LogIssued, LogReused,
             InsertReplay, MarkConsumed, CommitConsume, LogConsumed, LogAccepted, LogRejected,
             Respond, IssueConflict, Restart
  <2>4. req'[s].receipt = req[s].receipt => Foreign(s, d)'
    BY <1>0, <1>2, <2>1, ForeignStays
  <2> QED  BY <2>3, <2>4 DEF Harmless
<1>3. CASE pc[s] \notin {"log_assessed", "begin", "check"}
  <2>1. \/ pc'[s] \in {"find", "issue", "log_issued", "log_reused", "log_rejected"}
        \/ pc'[s] = "respond" /\ req'[s].outcome # "ALLOW"
    <3>1. CASE Find(s)
      BY <1>0, <3>1 DEF Find, Goto
    <3>2. CASE Issue(s)
      BY <1>0, <3>2 DEF Issue, Goto
    <3>3. CASE LogIssued(s) \/ LogReused(s)
      <4>1. pc[s] \in Offering /\ pc'[s] = "respond" /\ req'[s].outcome = req[s].outcome
        BY <1>0, <3>3 DEF LogIssued, LogReused, Goto, Offering
      <4>2. req[s].outcome = "REQUIRE_CONFIRM"
        BY <1>0, <4>1 DEF AInv, LogInv, Handled, Offers
      <4> QED  BY <4>1, <4>2
    <3>4. CASE LogRejected(s)
      BY <1>0, <3>4, RejectedMove
    <3>5. CASE BusyTimeout(s) \/ IssueConflict(s) \/ StatementFails(s)
      <4>1. Abort(s)
        BY <3>5 DEF BusyTimeout, IssueConflict, StatementFails
      <4> QED  BY <1>0, <4>1 DEF Abort, Goto, Request
    <3>6. CASE Respond(s) \/ Crash(s)
      BY <1>0, <3>6 DEF Respond, Crash, Goto, Serves
    <3>7. pc[s] \notin {"idle", "down", "log_assessed", "begin", "check", "insert_replay",
                        "mark_consumed", "commit", "log_consumed", "log_accepted"}
      BY <1>3 DEF Harmless, Serves
    <3>8. \/ Find(s) \/ Issue(s) \/ LogIssued(s) \/ LogReused(s) \/ LogRejected(s)
          \/ BusyTimeout(s) \/ IssueConflict(s) \/ StatementFails(s) \/ Respond(s) \/ Crash(s)
      BY <3>7 DEF Moves, Handle, Receive, ReceiveAndFail, LogAssessed, BeginConsume,
                  CheckReceipt, InsertReplay, MarkConsumed, CommitConsume, LogConsumed,
                  LogAccepted, Restart
    <3> QED  BY <3>1, <3>2, <3>3, <3>4, <3>5, <3>6, <3>8
  <2> QED  BY <2>1 DEF Harmless
<1> QED  BY <1>1, <1>2, <1>3

(* Only LogConsumed records a consumption.                                 *)
LEMMA RecordedStep ==
    ASSUME TypeInv, NEW s \in Server, Moves(s), pc[s] # "log_consumed",
           NEW d \in Decision, ~Recorded(d, "receipt.consumed")
    PROVE  ~Recorded(d, "receipt.consumed")'
<1>0. decision_logs \in [Decision -> Seq(Event)]
  BY DEF TypeInv, Typed, TypeOK
<1>1. ASSUME NEW type \in Events, NEW verdict, NEW receipt, type # "receipt.consumed",
             Log(s, type, verdict, receipt)
      PROVE  ~Recorded(d, "receipt.consumed")'
  <2> DEFINE e == [event_type |-> type, verdict |-> verdict, receipt |-> receipt]
  <2>1. CASE decision_logs'[d] = decision_logs[d]
    BY <2>1 DEF Recorded
  <2>2. CASE decision_logs'[d] = Append(decision_logs[d], e)
    <3>1. decision_logs[d] \in Seq(Event) /\ Len(decision_logs[d]) \in Nat
      BY <1>0
    <3>2. ASSUME NEW i \in DOMAIN Append(decision_logs[d], e)
          PROVE  \/ i \in DOMAIN decision_logs[d] /\ Append(decision_logs[d], e)[i] = decision_logs[d][i]
                 \/ Append(decision_logs[d], e)[i] = e
      BY <3>1
    <3> QED  BY <1>1, <2>2, <3>2 DEF Recorded
  <2> QED  BY <1>0, <1>1, <2>1, <2>2 DEF Log
<1>2. CASE LogAssessed(s)
  BY <1>1, <1>2 DEF LogAssessed, Events
<1>3. CASE LogIssued(s) \/ LogReused(s) \/ LogAccepted(s) \/ LogRejected(s)
  BY <1>1, <1>3 DEF LogIssued, LogReused, LogAccepted, LogRejected, Events
<1>4. CASE UNCHANGED decision_logs
  BY <1>4 DEF Recorded
<1> QED
  BY <1>2, <1>3, <1>4
     DEF Moves, Handle, Receive, ReceiveAndFail, Find, Issue, BeginConsume, CheckReceipt,
         InsertReplay, MarkConsumed, CommitConsume, LogConsumed, Respond, BusyTimeout,
         IssueConflict, StatementFails, Abort, Crash, Restart, store

(* What a client starts that presents something else.                      *)
LEMMA MisuseStarts ==
    ASSUME RInv, [Next]_vars, NEW s \in Server, Moves(s), Misuse(s), Acts(s)
    PROVE  Misusing'
<1> PICK d : d = Len(calls) + 1
  OBVIOUS
<1>0. /\ TypeInv /\ Typed' /\ Served /\ Handed /\ receipts' = receipts
      /\ decision_logs' = decision_logs /\ replies' = replies
      /\ held[s] # None /\ misused' = {Len(calls')} /\ Receive(s)
      /\ pc' \in [Server -> Label] /\ Len(calls) \in Nat
  <2>1. TypeInv /\ Typed' /\ Served /\ Handed
    BY TypeStep DEF RInv, AInv, LogInv, IInv
  <2>2. /\ held[s] # None /\ misused' = {Len(calls')} /\ Receive(s)
    BY DEF Misuse
  <2>3. receipts' = receipts /\ decision_logs' = decision_logs /\ replies' = replies
    BY <2>2 DEF Receive, store
  <2>4. pc' \in [Server -> Label] /\ Len(calls) \in Nat
    BY <2>1 DEF TypeInv, Typed, TypeOK
  <2> QED  BY <2>1, <2>2, <2>3, <2>4
<1>1. PICK call \in Misuses(s) : calls' = Append(calls, call)
  BY DEF Misuse
<1>2. /\ call \in Call /\ IsExecute(call) /\ Twisted(call, Task[s], held[s])
      /\ Task[s] \in Plan /\ Holds(held[s])
  BY <1>0, CallShape DEF Handed
<1>3. /\ d \in Decision /\ d \notin 1..Len(calls) /\ Len(calls') = d /\ calls'[d] = call
      /\ req'[s].decision_id = d /\ pc'[s] = "log_assessed"
      /\ \E r \in Rid, n \in Nonce :
            /\ req'[s].outcome = Assess(call, r, n).action
            /\ req'[s].receipt = Assess(call, r, n).receipt
  <2>1. pc'[s] = "log_assessed"
    BY <1>0 DEF Receive, Goto, TypeInv, Typed, TypeOK
  <2> QED  BY <1>0, <1>1, <1>2, <2>1, Reception
<1>4. CASE call.signals = "low" /\ call.confirm.key = held[s]
  <2> PICK key : key = held[s]
    OBVIOUS
  <2>1. Holds(key)'
    BY <1>0, <1>2 DEF Holds
  <2>2. KeyOf(d)' = key /\ calls'[d].signals = "low"
    BY <1>3, <1>4 DEF KeyOf
  <2>3. Exempt(d)'
    BY <2>1, <2>2, ReceiptsAssumption DEF Exempt, Holds, BaseAction
  <2> QED  BY <1>0, <1>2, <1>3, <2>3 DEF Misusing, IsExecute
<1>5. CASE ~(call.signals = "low" /\ call.confirm.key = held[s])
  <2> PICK key : key = call.confirm.key
    OBVIOUS
  <2>1. ~Recorded(d, "receipt.consumed")'
    BY <1>0, <1>3 DEF Served, Recorded
  <2>2. \A a \in replies' : a.decision_id # d
    BY <1>0, <1>3 DEF Served
  <2>3. ASSUME NEW t \in Server, t # s PROVE ~Serves(t, d)'
    BY <1>0, <1>3, <2>3, OthersStay DEF Serves, TypeInv, Typed, Serving
  <2>4. KeyOf(d)' = key
    BY <1>3 DEF KeyOf
  <2>5. req'[s].outcome = "ALLOW" => Foreign(s, d)'
    <3>1. CASE \/ call.signals = "extreme"
               \/ call.signals \in Plan /\ key.plan_hash # call.signals
      <4>1. \A r, n : Assess(call, r, n).action # "ALLOW"
        BY <1>2, <3>1, ReceiptsAssumption DEF Assess, Guardrail, BaseAction, IsExecute
      <4> QED  BY <1>3, <4>1
    <3>2. CASE /\ call.signals = Task[s] /\ key.plan_hash = Task[s]
               /\ key.receipt_id \in Rid \ Used
      <4>1. \A r, n : Assess(call, r, n).receipt = key
        BY <1>2, <3>2 DEF Assess, Guardrail, BaseAction, IsExecute
      <4>2. req'[s].receipt = key
        BY <1>3, <4>1
      <4>3. key.receipt_id \notin Stored(receipts)
        BY <3>2 DEF Used
      <4>4. ASSUME NEW t \in Server, t # s, req'[t].receipt # None
            PROVE  req'[t].receipt.receipt_id # key.receipt_id
        BY <1>0, <3>2, <4>4, OthersStay DEF Used
      <4>5. Unknown(s, key.receipt_id)'
        BY <1>0, <4>3, <4>4 DEF Unknown, Stored
      <4> QED  BY <2>4, <4>2, <4>5 DEF Foreign, Unknown
    <3>3. CASE key.receipt_id = held[s].receipt_id /\ key.nonce # held[s].nonce
      <4>1. receipts[key.receipt_id] # NoRow /\ BindingOf(receipts, key.receipt_id) # key
        BY <1>2, <3>3 DEF Holds
      <4> QED  BY <1>0, <2>4, <4>1 DEF Foreign
    <3>4. \/ call.signals = "extreme"
          \/ call.signals \in Plan /\ key.plan_hash # call.signals
          \/ call.signals = Task[s] /\ key.plan_hash = Task[s] /\ key.receipt_id \in Rid \ Used
          \/ key.receipt_id = held[s].receipt_id /\ key.nonce # held[s].nonce
      BY <1>2, <1>5 DEF Twisted
    <3> QED  BY <3>1, <3>2, <3>3, <3>4
  <2>6. Harmless(s, d)'
    BY <1>3, <2>5 DEF Harmless
  <2>7. Contained(d)'
    BY <2>1, <2>2, <2>3, <2>6 DEF Contained
  <2> QED  BY <1>0, <1>2, <1>3, <2>7 DEF Misusing, IsExecute
<1> QED  BY <1>4, <1>5

(* And what becomes of it.                                                 *)
LEMMA MisusingStep ==
    ASSUME RInv, [RoundTripNext]_roundTripVars
    PROVE  Misusing'
<1>0. /\ [Next]_vars /\ AInv /\ TypeInv /\ Typed' /\ Grows /\ Served /\ Misusing
      /\ misused \subseteq 1..Len(calls) /\ misused \subseteq Decision
      /\ Len(calls) \in Nat /\ Len(calls') \in Nat
  <2>1. [Next]_vars /\ AInv /\ TypeInv /\ Typed' /\ Grows /\ Served /\ Misusing
    BY Steps, Growth, TypeStep DEF RInv, AInv, LogInv, IInv
  <2>2. Len(calls) \in Nat /\ Len(calls') \in Nat /\ Len(calls) <= MaxCalls
    BY <2>1 DEF TypeInv, Typed, TypeOK
  <2> QED  BY <2>1, <2>2, ControlAssumption DEF Misusing, Decision
<1>1. CASE UNCHANGED roundTripVars
  BY <1>0, <1>1
     DEF Misusing, Contained, Exempt, Harmless, Foreign, Unknown, Holds, BindingOf, Stored,
         Recorded, Serves, KeyOf, IsExecute, roundTripVars, vars, client
<1>2. ASSUME NEW s \in Server, Acts(s), Moves(s), ~Misuse(s) PROVE Misusing'
  <2>1. misused' = misused /\ misused \subseteq 1..Len(calls')
    BY <1>0, <1>2, CallsStep DEF Grows
  <2>2. ASSUME NEW d \in misused
        PROVE  /\ calls'[d] = calls[d] /\ KeyOf(d)' = KeyOf(d)
               /\ IsExecute(calls[d]) /\ d \in Decision /\ d \in 1..Len(calls)
    BY <1>0, <2>2, ReasonsStable DEF Misusing
  <2>3. ASSUME NEW d \in misused, Exempt(d) PROVE Exempt(d)'
    <3> PICK key : key = KeyOf(d)
      OBVIOUS
    <3>1. Holds(key)'
      BY <1>0, <2>3, HoldsStable DEF Exempt
    <3> QED  BY <2>2, <2>3, <3>1 DEF Exempt, Holds
  <2>4. ASSUME NEW d \in misused, Contained(d) PROVE ~Recorded(d, "receipt.consumed")'
    <3>1. CASE Serves(s, d)
      BY <1>0, <1>2, <2>2, <2>4, <3>1, RecordedStep DEF Contained, Harmless
    <3>2. CASE ~Serves(s, d)
      BY <1>0, <1>2, <2>2, <2>4, <3>2, OtherLogs DEF Contained, Recorded
    <3> QED  BY <3>1, <3>2
  <2>5. ASSUME NEW d \in misused, Contained(d), NEW a \in replies', a.decision_id = d
        PROVE  a.outcome # "ALLOW"
    <3>1. CASE a \in replies
      BY <2>5, <3>1 DEF Contained
    <3>2. CASE a = AnswerOf(s) /\ pc[s] = "respond"
      <4>1. Serves(s, d) /\ a.outcome = req[s].outcome
        BY <2>5, <3>2 DEF AnswerOf, Serves
      <4> QED  BY <2>5, <3>2, <4>1 DEF Contained, Harmless
    <3> QED  BY <1>0, <1>2, <3>1, <3>2, RepliesStep
  <2>6. ASSUME NEW d \in misused, Contained(d), NEW t \in Server, Serves(t, d)'
        PROVE  Harmless(t, d)'
    <3>1. CASE t = s
      <4>1. Serves(s, d) /\ Harmless(s, d)
        BY <1>0, <1>2, <2>2, <2>6, <3>1, ServesStep DEF Contained
      <4> QED  BY <1>0, <1>2, <2>6, <3>1, <4>1, HarmlessMove
    <3>2. CASE t # s
      <4>1. pc'[t] = pc[t] /\ req'[t] = req[t] /\ Harmless(t, d)
        BY <1>0, <1>2, <2>6, <3>2, OthersStay DEF Serves, Contained
      <4>2. pc[t] # "issue" /\ Foreign(t, d) => Foreign(t, d)'
        BY <1>0, <1>2, <2>2, <4>1, ForeignStays
      <4> QED  BY <4>1, <4>2 DEF Harmless
    <3> QED  BY <3>1, <3>2
  <2>7. ASSUME NEW d \in misused PROVE IsExecute(calls'[d]) /\ (Exempt(d)' \/ Contained(d)')
    <3>1. Contained(d) => Contained(d)'
      BY <2>4, <2>5, <2>6 DEF Contained
    <3> QED  BY <1>0, <2>2, <2>3, <3>1 DEF Misusing
  <2> QED  BY <2>1, <2>7 DEF Misusing, IsExecute
<1> QED  BY <1>0, <1>1, <1>2, MisuseStarts, Steps

(* All of it is true at first and after every step.                        *)
LEMMA RInvInit == RoundTripInit => RInv
<1> SUFFICES ASSUME RoundTripInit PROVE RInv
  OBVIOUS
<1>1. AInv /\ Init /\ held = [s \in Server |-> None] /\ misused = {} /\ Len(calls) = 0
  BY AInvInit DEF RoundTripInit, Init
<1>2. InTime /\ Handed
  BY <1>1 DEF InTime, Handed, Init, NoReq, Stored
<1>3. Honest /\ Misusing
  BY <1>1 DEF Honest, Misusing, Init, Serves
<1> QED  BY <1>1, <1>2, <1>3 DEF RInv

(* No step of a client, of a process or of a fault breaks it.              *)
LEMMA RInvNext == RInv /\ [RoundTripNext]_roundTripVars => RInv'
<1> SUFFICES ASSUME RInv, [RoundTripNext]_roundTripVars PROVE RInv'
  OBVIOUS
<1>1. AInv' /\ InTime'
  BY Steps, AInvNext, InTimeStep DEF RInv
<1> QED  BY <1>1, HandedStep, HonestStep, MisusingStep DEF RInv

(* Clients that follow the answers, and those that misuse them, get what   *)
(* the server does for any: all that is proved of ExecutionControl holds.  *)
THEOREM RoundTripIsExecution == RoundTripSpec => Spec
<1>1. RoundTripInit => Init
  BY DEF RoundTripInit
<1>2. [RoundTripNext]_roundTripVars => [Next]_vars
  BY Steps
<1> QED  BY <1>1, <1>2, PTL DEF RoundTripSpec, Spec

(* HonestRejections: a client that presents what it was handed is told     *)
(* REPLAY_DETECTED or nothing, for any number of clients, plans and calls. *)
THEOREM HonestRejectionsHolds == RoundTripSpec => []HonestRejections
<1>1. RInv => HonestRejections
  BY DEF RInv, Honest, HonestRejections, NoBlame
<1> QED  BY <1>1, RInvInit, RInvNext, PTL DEF RoundTripSpec

(* MisuseContained: a call that does not present what was handed out is    *)
(* not accepted and consumes nothing, unless its signals need no           *)
(* confirmation and the key is the stored one, whatever the other clients  *)
(* do meanwhile.                                                           *)
THEOREM MisuseContainedHolds == RoundTripSpec => []MisuseContained
<1>1. RInv => MisuseContained
  BY DEF RInv, Misusing, Exempt, Contained, Holds, KeyOf, MisuseContained
<1> QED  BY <1>1, RInvInit, RInvNext, PTL DEF RoundTripSpec
=============================================================================
