--------------------------- MODULE IngestionProofs ---------------------------
(***************************************************************************)
(* Proofs about Ingestion for any number of calls, runs, jobs, keys,       *)
(* datasets and hashes.                                                    *)
(***************************************************************************)
EXTENDS Ingestion, TLAPS

(* A row holds a result or none, and a row that has not ended holds none. *)
RowsOK ==
    \A r \in Runs :
        /\ (runs[r].hash = None) <=> (runs[r].version = 0)
        /\ runs[r].status \in {"QUEUED", "RUNNING"} => runs[r].hash = None

(* The identifier of a run about to be inserted is nobody else's. *)
NewRunOK(c) ==
    call[c].pc \in {"find", "insert"} =>
        /\ runs[call[c].run] = NoRun
        /\ call[c].copy.status = "RUNNING"
        /\ call[c].copy.hash = None
        /\ call[c].copy.version = 0
        /\ \A d \in Calls : d # c => call[d].run # call[c].run

(* What cancel_run and fail_run are about to save has no result. *)
SaveOK(c) ==
    /\ call[c].pc \in {"select", "update"} =>
         /\ runs[call[c].run] # NoRun
         /\ call[c].copy.status \in {"CANCEL_REQUESTED", "FAILED"}
         /\ call[c].copy.hash = None
         /\ call[c].copy.version = 0
    /\ call[c].pc = "update" =>
         /\ call[c].loaded # NoRun
         /\ (call[c].loaded.hash = None) <=> (call[c].loaded.version = 0)

(* A callback works on a run that exists, for the dataset of its job. *)
CallbackOK(c) ==
    call[c].pc \in {"lockRun", "lockDataset", "insertDataset", "nextNumber", "commit"} =>
        /\ runs[call[c].run] # NoRun
        /\ call[c].copy.job = runs[call[c].run].job

RowInv == RowsOK /\ \A c \in Calls : NewRunOK(c) /\ SaveOK(c) /\ CallbackOK(c)

(* What an action does to the calls: one of them changes. *)
OneCall(c, x) == call' = [call EXCEPT ![c] = x]

\* Writing one well-typed call state keeps the type of call.
LEMMA CallUpdate ==
    ASSUME TypeOK, NEW c \in Calls, NEW x, OneCall(c, x)
    PROVE  /\ call'[c] = x
           /\ \A d \in Calls : d # c => call'[d] = call[d]
           /\ x \in Call => call' \in [Calls -> Call]
  BY DEF TypeOK, OneCall

\* An absent row is not a run.
LEMMA NoRunNotARun == NoRun \notin Run
  BY DEF NoRun, Run, RunStatus

(* The record sets of the call states are told apart by pc. *)
LEMMA CallShape ==
    ASSUME TypeOK, NEW c \in Calls
    PROVE  /\ call[c] \in Call
           /\ call[c].pc \in {"find", "insert"} => call[c] \in NewRunCall
           /\ call[c].pc \in {"select", "update"} => call[c] \in SaveCall
           /\ call[c].pc \in {"lockRun", "lockDataset", "insertDataset", "nextNumber"}
                => call[c] \in CallbackCall
           /\ call[c].pc = "commit" => call[c] \in CommitCall
           /\ call[c].pc = "idle" => call[c] = Idle
           /\ call[c] # Idle => call[c].run \in Runs /\ call[c].copy \in Run
  <1>1. call[c] \in Call
    BY DEF TypeOK
  <1>2. Idle.pc = "idle"
    BY DEF Idle
  <1>3. \A x \in NewRunCall : x.pc \in {"find", "insert"}
    BY DEF NewRunCall
  <1>4. \A x \in SaveCall : x.pc \in {"select", "update"}
    BY DEF SaveCall
  <1>5. \A x \in CallbackCall :
          x.pc \in {"lockRun", "lockDataset", "insertDataset", "nextNumber"}
    BY DEF CallbackCall
  <1>6. \A x \in CommitCall : x.pc = "commit"
    BY DEF CommitCall
  <1>7. \A x \in NewRunCall \union SaveCall \union CallbackCall \union CommitCall :
          x.run \in Runs /\ x.copy \in Run
    BY DEF NewRunCall, SaveCall, CallbackCall, CommitCall
  <1> QED BY <1>1, <1>2, <1>3, <1>4, <1>5, <1>6, <1>7 DEF Call

\* A new call of start_run has a well-typed state.
LEMMA StartType ==
    ASSUME TypeOK, RowInv, NEW c \in Calls, NEW j \in Jobs, NEW k \in Keys, NEW r \in Runs,
           StartRun(c, j, k, r)
    PROVE  TypeOK' /\ RowInv'
  <1> DEFINE x == [Idle EXCEPT !.pc = "insert", !.run = r, !.copy = NewRun(j, k)]
  <1>1. OneCall(c, x) /\ UNCHANGED db /\ Unused(r)
    BY DEF StartRun, OneCall
  <1>2. NewRun(j, k) \in Run
    BY DEF NewRun, Run, RunStatus
  <1>3. x \in NewRunCall /\ x.pc = "insert" /\ x.run = r /\ x.copy = NewRun(j, k)
    BY <1>2 DEF Idle, NewRunCall
  <1> HIDE DEF x
  <1>4. TypeOK'
    BY <1>1, <1>3, CallUpdate DEF TypeOK, Call, db
  <1>5. RowsOK'
    BY <1>1 DEF RowInv, RowsOK, db
  <1>6. ASSUME NEW d \in Calls PROVE (NewRunOK(d) /\ SaveOK(d) /\ CallbackOK(d))'
    <2>1. CASE d = c
      BY <2>1, <1>1, <1>3, CallUpdate DEF NewRunOK, SaveOK, CallbackOK, Unused, db, NewRun
    <2>2. CASE d # c
      BY <2>2, <1>1, <1>3, CallUpdate DEF RowInv, NewRunOK, SaveOK, CallbackOK, Unused, db
    <2> QED BY <2>1, <2>2
  <1> QED BY <1>4, <1>5, <1>6 DEF RowInv

\* A new call of retry_run copies job and target of an existing run.
LEMMA RetryType ==
    ASSUME TypeOK, RowInv, NEW c \in Calls, NEW p \in Runs, NEW k \in Keys, NEW r \in Runs,
           RetryRun(c, p, k, r)
    PROVE  TypeOK' /\ RowInv'
  <1> DEFINE x == [Idle EXCEPT !.pc = "find", !.run = r, !.copy = NewRun(runs[p].job, k)]
  <1>1. OneCall(c, x) /\ UNCHANGED db /\ Unused(r)
    BY DEF RetryRun, OneCall
  <1>2. NewRun(runs[p].job, k) \in Run
    <2>1. runs[p] \in Run
      BY DEF RetryRun, TypeOK, NoRun
    <2> QED BY <2>1 DEF NewRun, Run, RunStatus
  <1>3. x \in NewRunCall /\ x.pc = "find" /\ x.run = r /\ x.copy = NewRun(runs[p].job, k)
    BY <1>2 DEF Idle, NewRunCall
  <1> HIDE DEF x
  <1>4. TypeOK'
    BY <1>1, <1>3, CallUpdate DEF TypeOK, Call, db
  <1>5. RowsOK'
    BY <1>1 DEF RowInv, RowsOK, db
  <1>6. ASSUME NEW d \in Calls PROVE (NewRunOK(d) /\ SaveOK(d) /\ CallbackOK(d))'
    <2>1. CASE d = c
      BY <2>1, <1>1, <1>3, CallUpdate DEF NewRunOK, SaveOK, CallbackOK, Unused, db, NewRun
    <2>2. CASE d # c
      BY <2>2, <1>1, <1>3, CallUpdate DEF RowInv, NewRunOK, SaveOK, CallbackOK, Unused, db
    <2> QED BY <2>1, <2>2
  <1> QED BY <1>4, <1>5, <1>6 DEF RowInv

(* Ending a call without touching the tables disturbs nothing: Crash, a lost
   key, a callback that finds the run succeeded, a rollback. *)
LEMMA ReturnType ==
    ASSUME TypeOK, RowInv, NEW c \in Calls, Return(c), UNCHANGED db
    PROVE  TypeOK' /\ RowInv'
  <1>1. OneCall(c, Idle) /\ Idle \in Call
    BY DEF Return, OneCall, Call
  <1>2. TypeOK'
    BY <1>1, CallUpdate DEF TypeOK, db
  <1>3. RowsOK'
    BY DEF RowInv, RowsOK, db
  <1>4. ASSUME NEW d \in Calls PROVE (NewRunOK(d) /\ SaveOK(d) /\ CallbackOK(d))'
    <2>1. CASE d = c
      BY <2>1, <1>1, CallUpdate DEF NewRunOK, SaveOK, CallbackOK, Idle
    <2>2. CASE d # c
      <3>1. \A e \in Calls : call[e].pc \in {"find", "insert"} => call[e].run # None
        BY CallShape, NoneAssumption DEF NewRunCall
      <3> QED BY <2>2, <3>1, <1>1, CallUpdate
              DEF RowInv, NewRunOK, SaveOK, CallbackOK, db, Idle
    <2> QED BY <2>1, <2>2
  <1> QED BY <1>2, <1>3, <1>4 DEF RowInv

(* Moving a call on to its next step. *)
LEMMA GotoType ==
    ASSUME TypeOK, RowInv, NEW c \in Calls, NEW p, Goto(c, p), UNCHANGED db,
           \/ call[c].pc = "find" /\ p = "insert"
           \/ call[c].pc = "lockRun" /\ p = "lockDataset"
           \/ call[c].pc = "lockDataset" /\ p \in {"insertDataset", "nextNumber"}
    PROVE  TypeOK' /\ RowInv'
  <1> DEFINE x == [call[c] EXCEPT !.pc = p]
  <1>1. OneCall(c, x)
    BY DEF Goto, OneCall, TypeOK
  <1>2. /\ x.pc = p /\ x.run = call[c].run /\ x.copy = call[c].copy
        /\ x \in Call
    BY CallShape DEF NewRunCall, CallbackCall, Call
  <1> HIDE DEF x
  <1>3. TypeOK'
    BY <1>1, <1>2, CallUpdate DEF TypeOK, db
  <1>4. RowsOK'
    BY DEF RowInv, RowsOK, db
  <1>5. ASSUME NEW d \in Calls PROVE (NewRunOK(d) /\ SaveOK(d) /\ CallbackOK(d))'
    <2>1. CASE d = c
      BY <2>1, <1>1, <1>2, CallUpdate DEF RowInv, NewRunOK, SaveOK, CallbackOK, db
    <2>2. CASE d # c
      BY <2>2, <1>1, <1>2, CallUpdate DEF RowInv, NewRunOK, SaveOK, CallbackOK, db
    <2> QED BY <2>1, <2>2
  <1> QED BY <1>3, <1>4, <1>5 DEF RowInv

(* Writing a row that exists, and ending the call: UpdateRun, the quarantine
   and the commit. *)
LEMMA RowChange ==
    ASSUME TypeOK, RowInv, NEW c \in Calls, NEW r \in Runs, NEW row \in Run,
           runs[r] # NoRun,
           row.job = runs[r].job,
           (row.hash = None) <=> (row.version = 0),
           row.status \in {"QUEUED", "RUNNING"} => row.hash = None,
           runs' = [runs EXCEPT ![r] = row],
           Return(c)
    PROVE  /\ runs' \in [Runs -> Run \union {NoRun}]
           /\ call' \in [Calls -> Call]
           /\ RowInv'
  <1>1. OneCall(c, Idle) /\ Idle \in Call
    BY DEF Return, OneCall, Call
  <1>2. runs' \in [Runs -> Run \union {NoRun}]
    BY DEF TypeOK
  <1>3. call' \in [Calls -> Call]
    BY <1>1, CallUpdate
  <1>4. RowsOK'
    BY DEF RowInv, RowsOK, TypeOK
  <1>5. /\ runs'[r] # NoRun /\ runs'[r].job = runs[r].job
        /\ \A q \in Runs : q # r => runs'[q] = runs[q]
    BY NoRunNotARun DEF TypeOK
  <1>6. ASSUME NEW d \in Calls PROVE (NewRunOK(d) /\ SaveOK(d) /\ CallbackOK(d))'
    <2>1. CASE d = c
      BY <2>1, <1>1, CallUpdate DEF NewRunOK, SaveOK, CallbackOK, Idle
    <2>2. CASE d # c
      <3>1. call'[d] = call[d] /\ call'[c] = Idle
        BY <2>2, <1>1, CallUpdate
      <3>2. call[d].pc # "idle" => call[d].run \in Runs
        BY CallShape DEF Idle
      <3>3. NewRunOK(d)'
        <4>1. SUFFICES ASSUME call[d].pc \in {"find", "insert"} PROVE NewRunOK(d)'
          BY <3>1 DEF NewRunOK
        <4>2. call[d].run # r /\ call[d].run \in Runs /\ call[d].run # None
          BY <4>1, <3>2, NoneAssumption DEF RowInv, NewRunOK
        <4>3. \A e \in Calls : e # d => call'[e].run # call[d].run
          <5> TAKE e \in Calls
          <5>1. CASE e = c
            BY <5>1, <3>1, <4>2 DEF Idle
          <5>2. CASE e # c
            BY <5>2, <4>1, <1>1, CallUpdate DEF RowInv, NewRunOK
          <5> QED BY <5>1, <5>2
        <4> QED BY <4>1, <4>2, <4>3, <3>1, <1>5 DEF RowInv, NewRunOK
      <3>4. SaveOK(d)'
        BY <3>1, <3>2, <1>5 DEF RowInv, SaveOK
      <3>5. CallbackOK(d)'
        BY <3>1, <3>2, <1>5 DEF RowInv, CallbackOK
      <3> QED BY <3>3, <3>4, <3>5
    <2> QED BY <2>1, <2>2
  <1> QED BY <1>2, <1>3, <1>4, <1>6 DEF RowInv

(* A call that begins or goes on about a run that exists. *)
LEMMA CallChange ==
    ASSUME TypeOK, RowInv, NEW c \in Calls, NEW x \in Call, OneCall(c, x), UNCHANGED db,
           call[c].pc \notin {"find", "insert"},
           x.run \in Runs, runs[x.run] # NoRun,
           x.pc \notin {"find", "insert"},
           x.pc \in {"select", "update"} =>
              /\ x.copy.status \in {"CANCEL_REQUESTED", "FAILED"} /\ x.copy.hash = None /\ x.copy.version = 0,
           x.pc = "update" => /\ x.loaded # NoRun
                              /\ (x.loaded.hash = None) <=> (x.loaded.version = 0),
           x.pc \in {"lockRun", "lockDataset", "insertDataset", "nextNumber", "commit"} =>
              x.copy.job = runs[x.run].job
    PROVE  TypeOK' /\ RowInv'
  <1>1. TypeOK'
    BY CallUpdate DEF TypeOK, db
  <1>2. RowsOK'
    BY DEF RowInv, RowsOK, db
  <1>3. ASSUME NEW d \in Calls PROVE (NewRunOK(d) /\ SaveOK(d) /\ CallbackOK(d))'
    <2>1. CASE d = c
      BY <2>1, CallUpdate DEF NewRunOK, SaveOK, CallbackOK, db
    <2>2. CASE d # c
      <3>1. call'[d] = call[d] /\ call'[c] = x
        BY <2>2, CallUpdate
      <3>2. NewRunOK(d)'
        <4>1. SUFFICES ASSUME call[d].pc \in {"find", "insert"} PROVE NewRunOK(d)'
          BY <3>1 DEF NewRunOK
        <4>2. \A e \in Calls : e # d => call'[e].run # call[d].run
          BY <4>1, <3>1, CallUpdate DEF RowInv, NewRunOK
        <4> QED BY <4>1, <4>2, <3>1 DEF RowInv, NewRunOK, db
      <3> QED BY <3>1, <3>2 DEF RowInv, SaveOK, CallbackOK, db
    <2> QED BY <2>1, <2>2
  <1> QED BY <1>1, <1>2, <1>3 DEF RowInv

\* Looking for the idempotency key changes only the call's state.
LEMMA FindType ==
    ASSUME TypeOK, RowInv, NEW c \in Calls, FindRun(c)
    PROVE  TypeOK' /\ RowInv'
  BY ReturnType, GotoType DEF FindRun

\* An inserted row is a whole run.
LEMMA InsertType ==
    ASSUME TypeOK, RowInv, NEW c \in Calls, InsertRun(c)
    PROVE  TypeOK' /\ RowInv'
  <1> DEFINE r == call[c].run
             row == call[c].copy
  <1>1. CASE KeyTaken(row.job, row.key)
    BY <1>1, ReturnType DEF InsertRun, db
  <1>2. CASE ~KeyTaken(row.job, row.key)
    <2>1. /\ call[c].pc = "insert" /\ r \in Runs /\ row \in Run /\ runs[r] = NoRun
          /\ row.status = "RUNNING" /\ row.hash = None /\ row.version = 0
          /\ \A d \in Calls : d # c => call[d].run # r
      BY CallShape DEF InsertRun, NewRunCall, RowInv, NewRunOK
    <2>2. /\ runs' = [runs EXCEPT ![r] = row] /\ OneCall(c, Idle) /\ Idle \in Call
          /\ UNCHANGED <<versions, datasets, outbox>>
      BY <1>2 DEF InsertRun, Return, OneCall, Call
    <2> HIDE DEF r, row
    <2>3. TypeOK'
      BY <2>1, <2>2, CallUpdate DEF TypeOK
    <2>4. RowsOK'
      BY <2>1, <2>2 DEF RowInv, RowsOK, TypeOK
    <2>5. runs'[r] # NoRun /\ \A q \in Runs : q # r => runs'[q] = runs[q]
      BY <2>1, <2>2, NoRunNotARun DEF TypeOK
    <2>6. ASSUME NEW d \in Calls PROVE (NewRunOK(d) /\ SaveOK(d) /\ CallbackOK(d))'
      <3>1. CASE d = c
        BY <3>1, <2>2, CallUpdate DEF NewRunOK, SaveOK, CallbackOK, Idle
      <3>2. CASE d # c
        <4>1. call'[d] = call[d] /\ call'[c] = Idle /\ call[d].run # r
          BY <3>2, <2>1, <2>2, CallUpdate
        <4>2. call[d].pc # "idle" => call[d].run \in Runs /\ call[d].run # None
          BY CallShape, NoneAssumption DEF Idle
        <4>3. NewRunOK(d)'
          <5>1. SUFFICES ASSUME call[d].pc \in {"find", "insert"} PROVE NewRunOK(d)'
            BY <4>1 DEF NewRunOK
          <5>2. ASSUME NEW e \in Calls, e # d PROVE call'[e].run # call[d].run
            <6>1. CASE e = c
              BY <6>1, <5>1, <4>1, <4>2 DEF Idle
            <6>2. CASE e # c
              BY <6>2, <5>1, <5>2, <2>2, CallUpdate DEF RowInv, NewRunOK
            <6> QED BY <6>1, <6>2
          <5> QED BY <5>1, <5>2, <4>1, <4>2, <2>5 DEF RowInv, NewRunOK
        <4>4. SaveOK(d)' /\ CallbackOK(d)'
          BY <4>1, <4>2, <2>5 DEF RowInv, SaveOK, CallbackOK
        <4> QED BY <4>3, <4>4
      <3> QED BY <3>1, <3>2
    <2> QED BY <2>3, <2>4, <2>6 DEF RowInv
  <1> QED BY <1>1, <1>2

\* cancel_run and fail_run copy an existing run in its new status.
LEMMA TransitionType ==
    ASSUME TypeOK, RowInv, NEW c \in Calls, NEW r \in Runs,
           CancelRun(c, r) \/ FailRun(c, r)
    PROVE  TypeOK' /\ RowInv'
  <1>1. PICK to \in {"CANCEL_REQUESTED", "FAILED"} :
          /\ call[c] = Idle
          /\ runs[r].status \in {"QUEUED", "RUNNING"}
          /\ OneCall(c, [Idle EXCEPT !.pc = "select", !.run = r,
                                     !.copy = [runs[r] EXCEPT !.status = to]])
          /\ UNCHANGED db
    BY DEF CancelRun, FailRun, Transition, Begin, OneCall
  <1>2. runs[r] \in Run /\ runs[r] # NoRun
    BY <1>1 DEF TypeOK, NoRun
  <1> DEFINE row == [runs[r] EXCEPT !.status = to]
             x == [Idle EXCEPT !.pc = "select", !.run = r, !.copy = row]
  <1>3. /\ row \in Run /\ row.status = to /\ row.hash = None /\ row.version = 0
    BY <1>1, <1>2 DEF Run, RunStatus, RowInv, RowsOK
  <1>4. OneCall(c, x)
    BY <1>1
  <1> HIDE DEF row
  <1>5. x \in SaveCall /\ x.pc = "select" /\ x.run = r /\ x.copy = row
    BY <1>3 DEF Idle, SaveCall
  <1> HIDE DEF x
  <1>6. x \in Call
    BY <1>5 DEF Call
  <1> QED BY <1>1, <1>2, <1>3, <1>4, <1>5, <1>6, CallChange DEF Idle

\* save_run remembers the row it loaded.
LEMMA SelectType ==
    ASSUME TypeOK, RowInv, NEW c \in Calls, SelectRun(c)
    PROVE  TypeOK' /\ RowInv'
  <1> DEFINE r == call[c].run
             x == [call[c] EXCEPT !.pc = "update", !.loaded = runs[r]]
  <1>1. call[c] \in SaveCall /\ call[c].pc = "select" /\ r \in Runs
    BY CallShape DEF SelectRun, Idle
  <1>2. /\ runs[r] # NoRun
        /\ call[c].copy.status \in {"CANCEL_REQUESTED", "FAILED"}
        /\ call[c].copy.hash = None /\ call[c].copy.version = 0
    BY <1>1 DEF RowInv, SaveOK
  <1>3. runs[r] \in Run /\ ((runs[r].hash = None) <=> (runs[r].version = 0))
    BY <1>1, <1>2 DEF TypeOK, RowInv, RowsOK
  <1>4. OneCall(c, x) /\ UNCHANGED db
    BY DEF SelectRun, OneCall, TypeOK
  <1>5. /\ x \in SaveCall /\ x.pc = "update" /\ x.run = r /\ x.copy = call[c].copy
        /\ x.loaded = runs[r]
    BY <1>1, <1>3 DEF SaveCall
  <1> HIDE DEF x, r
  <1>6. x \in Call
    BY <1>5 DEF Call
  <1> QED BY <1>1, <1>2, <1>3, <1>4, <1>5, <1>6, CallChange

\* The row save_run flushes is a whole run.
LEMMA UpdateType ==
    ASSUME TypeOK, RowInv, NEW c \in Calls, UpdateRun(c)
    PROVE  TypeOK' /\ RowInv'
  <1> DEFINE r == call[c].run
             old == call[c].loaded
             new == call[c].copy
             row == Flush(runs[r], old, new)
  <1>1. call[c] \in SaveCall /\ call[c].pc = "update" /\ r \in Runs /\ new \in Run
    BY CallShape DEF UpdateRun, Idle
  <1>2. /\ runs[r] \in Run /\ runs[r] # NoRun
        /\ new.status \in {"CANCEL_REQUESTED", "FAILED"}
        /\ new.hash = None /\ new.version = 0
        /\ (old.hash = None) <=> (old.version = 0)
    BY <1>1 DEF RowInv, SaveOK, TypeOK
  <1>3. /\ (runs[r].hash = None) <=> (runs[r].version = 0)
        /\ runs[r].status \in {"QUEUED", "RUNNING"} => runs[r].hash = None
    BY <1>1 DEF RowInv, RowsOK
  <1>4. /\ row \in Run /\ row.job = runs[r].job
        /\ (row.hash = None) <=> (row.version = 0)
        /\ row.status \in {"QUEUED", "RUNNING"} => row.hash = None
    BY <1>1, <1>2, <1>3 DEF Flush, Run
  <1>5. runs' = [runs EXCEPT ![r] = row] /\ Return(c)
        /\ UNCHANGED <<versions, datasets, outbox>>
    BY DEF UpdateRun
  <1> HIDE DEF r, row
  <1> QED BY <1>1, <1>2, <1>4, <1>5, RowChange DEF TypeOK

\* A callback copies the run it read.
LEMMA CompleteType ==
    ASSUME TypeOK, RowInv, NEW c \in Calls, NEW r \in Runs, NEW h \in Hashes,
           NEW pass \in BOOLEAN, CompleteRun(c, r, h, pass)
    PROVE  TypeOK' /\ RowInv'
  <1> DEFINE x == [Idle EXCEPT !.pc = "lockRun", !.run = r, !.copy = runs[r],
                               !.hash = h, !.pass = pass]
  <1>1. call[c] = Idle /\ runs[r] # NoRun /\ OneCall(c, x) /\ UNCHANGED db
    BY DEF CompleteRun, Begin, OneCall
  <1>2. runs[r] \in Run
    BY <1>1 DEF TypeOK
  <1>3. x \in CallbackCall /\ x.pc = "lockRun" /\ x.run = r /\ x.copy = runs[r]
    BY <1>2 DEF Idle, CallbackCall
  <1> HIDE DEF x
  <1>4. x \in Call
    BY <1>3 DEF Call
  <1> QED BY <1>1, <1>3, <1>4, CallChange DEF Idle

\* Locking the run ends the callback or leads on to the dataset.
LEMMA LockRunType ==
    ASSUME TypeOK, RowInv, NEW c \in Calls, LockRun(c)
    PROVE  TypeOK' /\ RowInv'
  <1> DEFINE r == call[c].run
  <1>1. call[c].pc = "lockRun" /\ r \in Runs /\ runs[r] # NoRun /\ runs[r] \in Run
    BY CallShape DEF LockRun, Idle, RowInv, CallbackOK, TypeOK
  <1>2. CASE Return(c) /\ UNCHANGED db
    BY <1>2, ReturnType
  <1>3. CASE Goto(c, "lockDataset") /\ UNCHANGED db
    BY <1>1, <1>3, GotoType
  <1>4. CASE /\ Return(c) /\ UNCHANGED <<versions, datasets>>
             /\ runs[r].status # "SUCCEEDED" /\ call[c].copy.status = "RUNNING"
             /\ runs' = [runs EXCEPT ![r].status = "QUARANTINED"]
             /\ outbox' = Append(outbox, Quarantined(r))
    <2> DEFINE row == [runs[r] EXCEPT !.status = "QUARANTINED"]
    <2>1. /\ row \in Run /\ row.job = runs[r].job
          /\ (row.hash = None) <=> (row.version = 0)
          /\ row.status \in {"QUEUED", "RUNNING"} => row.hash = None
      BY <1>1 DEF Run, RunStatus, RowInv, RowsOK
    <2>2. runs' = [runs EXCEPT ![r] = row]
      BY <1>1, <1>4 DEF TypeOK
    <2>3. outbox' \in Seq(Event)
      BY <1>1, <1>4 DEF TypeOK, Event, Quarantined
    <2> HIDE DEF row, r
    <2> QED BY <1>1, <1>4, <2>1, <2>2, <2>3, RowChange DEF TypeOK
  <1> QED BY <1>2, <1>3, <1>4 DEF LockRun, db, AlreadySucceeded, Emit

\* Locking the dataset changes only the call's state.
LEMMA LockDatasetType ==
    ASSUME TypeOK, RowInv, NEW c \in Calls, LockDataset(c)
    PROVE  TypeOK' /\ RowInv'
  BY GotoType DEF LockDataset

(* Giving the call its version number. *)
LEMMA Numbered ==
    ASSUME NEW y \in CallbackCall, NEW n \in Nat \ {0}
    PROVE  [y EXCEPT !.pc = "commit", !.number = n] \in CommitCall
  BY DEF CommitCall, CallbackCall

\* The inserted dataset row has the type of a row.
LEMMA InsertDatasetType ==
    ASSUME TypeOK, RowInv, NEW c \in Calls, InsertDataset(c)
    PROVE  TypeOK' /\ RowInv'
  <1>1. CASE Return(c)
    BY <1>1, ReturnType DEF InsertDataset
  <1>2. CASE ~Return(c)
    <2> DEFINE x == [call[c] EXCEPT !.pc = "commit", !.number = 1]
    <2>1. call[c].pc = "insertDataset" /\ OneCall(c, x) /\ UNCHANGED db
      BY <1>2 DEF InsertDataset, OneCall, TypeOK
    <2>2. call[c] \in CallbackCall
      BY <2>1, CallShape
    <2>3. /\ x.pc = "commit" /\ x.run = call[c].run
          /\ x.copy = call[c].copy /\ x.run \in Runs
      BY <2>2 DEF CallbackCall
    <2>4. x \in CommitCall
      <3>1. 1 \in Nat \ {0}
        OBVIOUS
      <3> QED BY <2>2, <3>1, Numbered, Zenon
    <2>5. runs[call[c].run] # NoRun /\ call[c].copy.job = runs[call[c].run].job
      BY <2>1 DEF RowInv, CallbackOK
    <2> HIDE DEF x
    <2>6. x \in Call
      BY <2>4 DEF Call
    <2> QED BY <2>1, <2>3, <2>5, <2>6, CallChange
  <1> QED BY <1>1, <1>2

\* The number drawn is a positive natural.
LEMMA NextNumberType ==
    ASSUME TypeOK, RowInv, NEW c \in Calls, NextNumber(c)
    PROVE  TypeOK' /\ RowInv'
  <1>1. PICK n \in Numbers(Goal(c)) \union {0} :
          call' = [call EXCEPT ![c].pc = "commit", ![c].number = n + 1]
    BY DEF NextNumber
  <1>2. n \in Nat
    BY DEF Numbers, TypeOK, Version
  <1> DEFINE x == [call[c] EXCEPT !.pc = "commit", !.number = n + 1]
  <1>3. call[c].pc = "nextNumber" /\ OneCall(c, x) /\ UNCHANGED db
    BY <1>1 DEF NextNumber, OneCall, TypeOK
  <1>4. call[c] \in CallbackCall
    BY <1>3, CallShape
  <1>5. /\ x.pc = "commit" /\ x.run = call[c].run
        /\ x.copy = call[c].copy /\ x.run \in Runs
    BY <1>4 DEF CallbackCall
  <1>6. x \in CommitCall
    <2>1. n + 1 \in Nat \ {0}
      BY <1>2
    <2> QED BY <1>4, <2>1, Numbered, Zenon
  <1>7. runs[call[c].run] # NoRun /\ call[c].copy.job = runs[call[c].run].job
    BY <1>3 DEF RowInv, CallbackOK
  <1> HIDE DEF x
  <1>8. x \in Call
    BY <1>6 DEF Call
  <1> QED BY <1>3, <1>5, <1>7, <1>8, CallChange

\* What is committed: a whole version of the call's run and its dataset.
LEMMA CommitFacts ==
    ASSUME TypeOK, RowInv, NEW c \in Calls, CommitSuccess(c)
    PROVE  /\ call[c].pc = "commit" /\ call[c].run \in Runs
           /\ runs[call[c].run] \in Run /\ runs[call[c].run] # NoRun
           /\ Goal(c) = Target[runs[call[c].run].job] /\ Goal(c) \in Datasets
           /\ call[c].number \in Nat \ {0} /\ call[c].hash \in Hashes
           /\ NewVersion(c) \in Version
  <1>1. /\ call[c].pc = "commit" /\ call[c] \in CommitCall
        /\ call[c].run \in Runs /\ call[c].copy \in Run
    BY CallShape DEF CommitSuccess, Idle
  <1>2. runs[call[c].run] # NoRun /\ call[c].copy.job = runs[call[c].run].job
    BY <1>1 DEF RowInv, CallbackOK
  <1>3. Goal(c) \in Datasets
    BY <1>1, TargetAssumption DEF Goal, Run
  <1>4. call[c].number \in Nat \ {0} /\ call[c].hash \in Hashes
    BY <1>1 DEF CommitCall
  <1> QED BY <1>1, <1>2, <1>3, <1>4 DEF TypeOK, Goal, NewVersion, Version

\* The commit writes rows, versions and events of the right types.
LEMMA CommitType ==
    ASSUME TypeOK, RowInv, NEW c \in Calls, CommitSuccess(c)
    PROVE  TypeOK' /\ RowInv'
  <1> DEFINE r == call[c].run
             v == NewVersion(c)
             row == [runs[r] EXCEPT !.status = "SUCCEEDED", !.hash = v.hash,
                                    !.version = v.number]
  <1>1. v \in Version /\ v.run = r /\ v.hash \in Hashes /\ v.number \in Nat \ {0}
    BY CommitFacts DEF NewVersion
  <1>2. r \in Runs /\ runs[r] \in Run /\ runs[r] # NoRun
    BY CommitFacts
  <1>3. /\ row \in Run /\ row.job = runs[r].job /\ row.status = "SUCCEEDED"
        /\ row.hash # None /\ row.version # 0
    BY <1>1, <1>2, NoneAssumption DEF Run, RunStatus
  <1>4. runs' = [runs EXCEPT ![r] = row]
    BY <1>1, <1>2 DEF CommitSuccess, TypeOK
  <1>5. versions' \subseteq Version
    BY <1>1 DEF CommitSuccess, TypeOK
  <1>6. datasets' \in [Datasets -> Dataset]
    BY <1>1 DEF CommitSuccess, TypeOK, Activate, Dataset, NoDataset, Version
  <1>7. outbox' \in Seq(Event)
    BY <1>1 DEF CommitSuccess, TypeOK, Emit, Ready, Event, Version
  <1>8. Return(c)
    BY DEF CommitSuccess
  <1> HIDE DEF row, r, v
  <1> QED BY <1>2, <1>3, <1>4, <1>5, <1>6, <1>7, <1>8, RowChange DEF TypeOK

(* The inductive step of TypeOK, strengthened by RowInv: a saved or published
   run exists only because the call that started it had read it. *)
LEMMA TypeStep ==
    ASSUME TypeOK, RowInv, [Next]_vars
    PROVE  TypeOK' /\ RowInv'
  <1>1. CASE UNCHANGED vars
    <2>1. TypeOK'
      BY <1>1 DEF TypeOK, vars
    <2>2. RowInv'
      BY <1>1 DEF RowInv, RowsOK, NewRunOK, SaveOK, CallbackOK, vars
    <2> QED BY <2>1, <2>2
  <1>2. ASSUME NEW c \in Calls, Request(c) PROVE TypeOK' /\ RowInv'
    BY <1>2, StartType, RetryType, TransitionType, CompleteType DEF Request
  <1>3. ASSUME NEW c \in Calls, RollbackCommit(c) \/ Crash(c) PROVE TypeOK' /\ RowInv'
    BY <1>3, ReturnType DEF RollbackCommit, Crash
  <1>4. ASSUME NEW c \in Calls, Step(c) PROVE TypeOK' /\ RowInv'
    BY <1>3, <1>4, FindType, InsertType, SelectType, UpdateType, LockRunType,
       LockDatasetType, InsertDatasetType, NextNumberType, CommitType DEF Step
  <1> QED BY <1>1, <1>2, <1>3, <1>4 DEF Next

\* The tables are empty and every call is idle initially.
LEMMA TypeInit == Init => TypeOK /\ RowInv
  <1> SUFFICES ASSUME Init PROVE TypeOK /\ RowInv
    OBVIOUS
  <1>1. TypeOK
    BY DEF Init, TypeOK, Dataset, NoDataset, Call
  <1>2. RowInv
    BY DEF Init, RowInv, RowsOK, NewRunOK, SaveOK, CallbackOK, Idle, NoRun
  <1> QED BY <1>1, <1>2

(* Every table row and every call state has the shape the code gives it. *)
THEOREM TypeCorrect == Spec => [](TypeOK /\ RowInv)
  BY TypeInit, TypeStep, PTL DEF Spec

------------------------------------------------------------------------------
(* Locks *)

RunLockInv ==
    \A c, d \in Calls, r \in Runs : HoldsRun(c, r) /\ HoldsRun(d, r) => c = d

DatasetLockInv ==
    \A c, d \in Calls, x \in Datasets : HoldsDataset(c, x) /\ HoldsDataset(d, x) => c = d

Act(c) == Request(c) \/ Step(c) \/ Crash(c)

(* A step of one call leaves the others where they are. *)
LEMMA OthersStay ==
    ASSUME TypeOK, NEW c \in Calls, Act(c), NEW d \in Calls, d # c
    PROVE  call'[d] = call[d]
  <1>1. \E x : OneCall(c, x)
    <2>1. CASE Request(c)
      BY <2>1 DEF Request, StartRun, RetryRun, CancelRun, FailRun, Transition,
                  CompleteRun, OneCall
    <2>2. ASSUME NEW p, Goto(c, p) PROVE \E x : OneCall(c, x)
      BY <2>2 DEF Goto, OneCall, TypeOK
    <2>3. CASE Return(c)
      BY <2>3 DEF Return, OneCall
    <2>4. CASE SelectRun(c)
      BY <2>4 DEF SelectRun, OneCall, TypeOK
    <2>5. CASE InsertDataset(c) \/ NextNumber(c)
      BY <2>3, <2>5 DEF InsertDataset, NextNumber, OneCall, TypeOK
    <2> QED BY <2>1, <2>2, <2>3, <2>4, <2>5
            DEF Act, Step, Crash, FindRun, InsertRun, UpdateRun, LockRun, LockDataset,
                CommitSuccess, RollbackCommit
  <1> QED BY <1>1, CallUpdate

(* How a call gets to the steps that hold a lock. *)
LEMMA Moves ==
    ASSUME TypeOK, NEW c \in Calls, Act(c)
    PROVE  LET m == call[c]
               n == call'[c]
               same == n.run = m.run /\ n.copy = m.copy
           IN  \/ n.pc \notin {"lockDataset", "insertDataset", "nextNumber", "commit"}
               \/ /\ same /\ m.pc = "lockRun" /\ n.pc = "lockDataset"
                  /\ ~RunLocked(m.run)
               \/ same /\ m.pc = "lockDataset" /\ n.pc = "insertDataset"
               \/ /\ same /\ m.pc = "lockDataset" /\ n.pc = "nextNumber"
                  /\ ~DatasetLocked(c, Goal(c))
               \/ /\ same /\ m.pc = "insertDataset" /\ n.pc = "commit"
                  /\ ~DatasetLocked(c, Goal(c))
                  /\ n.number = 1 /\ datasets[Goal(c)] = NoDataset /\ UNCHANGED db
               \/ /\ same /\ m.pc = "nextNumber" /\ n.pc = "commit" /\ UNCHANGED db
                  /\ \E k \in Numbers(Goal(c)) \union {0} :
                       IsMaxNumber(Goal(c), k) /\ n.number = k + 1
  <1>1. CASE Return(c)
    <2>1. call'[c] = Idle
      BY <1>1 DEF Return, TypeOK
    <2>2. call'[c].pc = "idle"
      BY <2>1 DEF Idle
    <2> QED BY <2>2
  <1>2. CASE Request(c)
    <2>1. \A p, r, row : [Idle EXCEPT !.pc = p, !.run = r, !.copy = row].pc = p
      BY DEF Idle
    <2>2. \A p, r, row, h, q :
            [Idle EXCEPT !.pc = p, !.run = r, !.copy = row, !.hash = h, !.pass = q].pc = p
      BY DEF Idle
    <2>3. ASSUME NEW j \in Jobs, NEW k \in Keys, NEW r \in Runs, StartRun(c, j, k, r)
          PROVE  call'[c].pc = "insert"
      BY <2>1, <2>3 DEF StartRun, TypeOK
    <2>4. ASSUME NEW p \in Runs, NEW k \in Keys, NEW r \in Runs, RetryRun(c, p, k, r)
          PROVE  call'[c].pc = "find"
      BY <2>1, <2>4 DEF RetryRun, TypeOK
    <2>5. ASSUME NEW r \in Runs, CancelRun(c, r) \/ FailRun(c, r)
          PROVE  call'[c].pc = "select"
      <3>1. PICK to : call' = [call EXCEPT ![c] =
                [Idle EXCEPT !.pc = "select", !.run = r,
                             !.copy = [runs[r] EXCEPT !.status = to]]]
        BY <2>5 DEF CancelRun, FailRun, Transition
      <3> QED BY <2>1, <3>1 DEF TypeOK
    <2>6. ASSUME NEW r \in Runs, NEW h \in Hashes, NEW q \in BOOLEAN, CompleteRun(c, r, h, q)
          PROVE  call'[c].pc = "lockRun"
      BY <2>2, <2>6 DEF CompleteRun, TypeOK
    <2>7. call'[c].pc \in {"insert", "find", "select", "lockRun"}
      BY <1>2, <2>3, <2>4, <2>5, <2>6 DEF Request
    <2> QED BY <2>7
  <1>3. ASSUME NEW p, Goto(c, p)
        PROVE  call'[c].pc = p /\ call'[c].run = call[c].run /\ call'[c].copy = call[c].copy
    <2>1. call'[c] = [call[c] EXCEPT !.pc = p]
      BY <1>3 DEF Goto, TypeOK
    <2>2. call[c] \in Call
      BY DEF TypeOK
    <2> QED BY <2>1, <2>2
            DEF Call, Idle, NewRunCall, SaveCall, CallbackCall, CommitCall
  <1>4. CASE FindRun(c)
    BY <1>1, <1>3, <1>4 DEF FindRun
  <1>5. CASE SelectRun(c)
    <2>1. call[c] \in SaveCall
      BY <1>5, CallShape DEF SelectRun
    <2>2. call'[c] = [call[c] EXCEPT !.pc = "update", !.loaded = runs[call[c].run]]
      BY <1>5 DEF SelectRun, TypeOK
    <2>3. call'[c].pc = "update"
      BY <2>1, <2>2 DEF SaveCall
    <2> QED BY <2>3
  <1>6. CASE LockRun(c)
    BY <1>1, <1>3, <1>6 DEF LockRun
  <1>7. CASE LockDataset(c)
    BY <1>1, <1>3, <1>7 DEF LockDataset
  <1>8. CASE InsertDataset(c) /\ ~Return(c)
    <2>1. call[c] \in CallbackCall
      BY <1>8, CallShape DEF InsertDataset
    <2>2. call'[c] = [call[c] EXCEPT !.pc = "commit", !.number = 1]
      BY <1>8 DEF InsertDataset, TypeOK
    <2>3. /\ call'[c].pc = "commit" /\ call'[c].number = 1
          /\ call'[c].run = call[c].run /\ call'[c].copy = call[c].copy
      BY <2>1, <2>2 DEF CallbackCall
    <2> QED BY <1>8, <2>3 DEF InsertDataset
  <1>9. CASE NextNumber(c)
    <2>1. PICK k \in Numbers(Goal(c)) \union {0} :
            /\ IsMaxNumber(Goal(c), k)
            /\ call' = [call EXCEPT ![c].pc = "commit", ![c].number = k + 1]
      BY <1>9 DEF NextNumber
    <2>2. call[c].pc = "nextNumber" /\ UNCHANGED db
      BY <1>9 DEF NextNumber
    <2>3. /\ call'[c].pc = "commit" /\ call'[c].number = k + 1
          /\ call'[c].run = call[c].run /\ call'[c].copy = call[c].copy
      <3>1. call[c] \in CallbackCall
        BY <2>2, CallShape
      <3>2. call'[c] = [call[c] EXCEPT !.pc = "commit", !.number = k + 1]
        BY <2>1 DEF TypeOK
      <3> QED BY <3>1, <3>2 DEF CallbackCall
    <2> QED BY <2>1, <2>2, <2>3
  <1>10. CASE \/ InsertRun(c) \/ UpdateRun(c) \/ CommitSuccess(c)
              \/ RollbackCommit(c) \/ Crash(c)
    <2>1. Return(c)
      BY <1>10 DEF InsertRun, UpdateRun, CommitSuccess, RollbackCommit, Crash
    <2> QED BY <1>1, <2>1
  <1> QED BY <1>1, <1>2, <1>4, <1>5, <1>6, <1>7, <1>8, <1>9, <1>10 DEF Act, Step

\* Two calls never hold the same run row.
LEMMA RunLockStep ==
    ASSUME TypeOK, RunLockInv, [Next]_vars
    PROVE  RunLockInv'
  <1>1. CASE UNCHANGED vars
    BY <1>1 DEF RunLockInv, HoldsRun, vars
  <1>2. ASSUME NEW c \in Calls, Act(c) PROVE RunLockInv'
    <2>1. \A d \in Calls, r \in Runs : d # c => (HoldsRun(d, r)' <=> HoldsRun(d, r))
      BY <1>2, OthersStay DEF HoldsRun
    <2>2. \A r \in Runs : HoldsRun(c, r)' => HoldsRun(c, r) \/ ~RunLocked(r)
      BY <1>2, Moves DEF HoldsRun
    <2> QED BY <2>1, <2>2 DEF RunLockInv, RunLocked
  <1> QED BY <1>1, <1>2 DEF Next, Act

\* Two calls never hold the same dataset row.
LEMMA DatasetLockStep ==
    ASSUME TypeOK, DatasetLockInv, [Next]_vars
    PROVE  DatasetLockInv'
  <1>1. CASE UNCHANGED vars
    BY <1>1 DEF DatasetLockInv, HoldsDataset, Goal, vars
  <1>2. ASSUME NEW c \in Calls, Act(c) PROVE DatasetLockInv'
    <2>1. \A d \in Calls, x \in Datasets :
            d # c => (HoldsDataset(d, x)' <=> HoldsDataset(d, x))
      BY <1>2, OthersStay DEF HoldsDataset, Goal
    <2>2. \A x \in Datasets : HoldsDataset(c, x)' => HoldsDataset(c, x) \/ ~DatasetLocked(c, x)
      BY <1>2, Moves DEF HoldsDataset, Goal
    <2> QED BY <2>1, <2>2 DEF DatasetLockInv, DatasetLocked
  <1> QED BY <1>1, <1>2 DEF Next, Act

------------------------------------------------------------------------------
(* Version numbers *)

(* The number given to a call is still the next one when the call commits. *)
NumberInv ==
    \A c \in Calls :
        call[c].pc = "commit" => call[c].number = datasets[Goal(c)].active + 1

VersionInv == DatasetLockInv /\ NumberInv /\ VersionNumbering

\* Versions and dataset rows change in commits only.
LEMMA OnlyCommitPublishes ==
    ASSUME NEW c \in Calls, Act(c), ~CommitSuccess(c)
    PROVE  UNCHANGED <<versions, datasets>>
  BY DEF Act, Request, StartRun, RetryRun, CancelRun, FailRun, Transition, CompleteRun,
         Step, FindRun, InsertRun, SelectRun, UpdateRun, LockRun, LockDataset,
         InsertDataset, NextNumber, RollbackCommit, Crash, db

\* A call in commit_success has a dataset to commit to.
LEMMA GoalType ==
    ASSUME TypeOK, NEW c \in Calls, call[c] # Idle
    PROVE  Goal(c) \in Datasets
  BY CallShape, TargetAssumption DEF Goal, Run

(* max(version_number) + 1 follows the active version. *)
LEMMA MaxIsActive ==
    ASSUME TypeOK, VersionNumbering, NEW d \in Datasets, NEW n \in Numbers(d) \union {0},
           IsMaxNumber(d, n)
    PROVE  n = datasets[d].active
  <1>1. Numbers(d) = 1..datasets[d].active /\ datasets[d].active \in Nat
    BY DEF VersionNumbering, TypeOK, Dataset
  <1>2. CASE datasets[d].active = 0
    BY <1>1, <1>2 DEF IsMaxNumber
  <1>3. CASE datasets[d].active # 0
    <2>1. datasets[d].active \in Numbers(d) /\ 1 \in Numbers(d)
      BY <1>1, <1>3
    <2>2. n \in Numbers(d) /\ \A m \in Numbers(d) : m <= n
      BY <2>1 DEF IsMaxNumber
    <2> QED BY <1>1, <2>1, <2>2
  <1> QED BY <1>2, <1>3

\* A commit appends the next number of its dataset and makes it active.
LEMMA CommitVersion ==
    ASSUME TypeOK, RowInv, NumberInv, VersionNumbering, NEW c \in Calls, CommitSuccess(c)
    PROVE  /\ VersionNumbering'
           /\ \A d \in Datasets : d # Goal(c) => datasets'[d] = datasets[d]
  <1> DEFINE v == NewVersion(c)
             g == Goal(c)
             n == call[c].number
  <1>1. /\ g \in Datasets /\ v \in Version /\ v.dataset = g /\ v.number = n
        /\ n = datasets[g].active + 1 /\ n \in Nat \ {0} /\ datasets[g].active \in Nat
    BY CommitFacts DEF NumberInv, NewVersion, TypeOK, Dataset
  <1>2. versions' = versions \union {v}
    BY DEF CommitSuccess
  <1>3. /\ datasets'[g] = Activate(datasets[g], n)
        /\ \A d \in Datasets : d # g => datasets'[d] = datasets[d]
    BY <1>1 DEF CommitSuccess, TypeOK
  <1>4. datasets'[g].active = n /\ datasets'[g].version = n + 1
    <2>1. CASE datasets[g] = NoDataset
      BY <2>1, <1>1, <1>3 DEF Activate, NoDataset
    <2>2. CASE datasets[g] # NoDataset
      <3>1. datasets[g].version =
              IF datasets[g].active = 0 THEN 0 ELSE datasets[g].active + 1
        BY <1>1 DEF VersionNumbering
      <3>2. datasets[g].active # 0
        BY <3>1, <2>2, <1>1 DEF TypeOK, Dataset, NoDataset
      <3> QED BY <3>1, <3>2, <2>2, <1>1, <1>3 DEF Activate
    <2> QED BY <2>1, <2>2
  <1> HIDE DEF v
  <1>5. ASSUME NEW d \in Datasets
        PROVE  Numbers(d)' = IF d = g THEN Numbers(d) \union {n} ELSE Numbers(d)
    BY <1>1, <1>2 DEF Numbers
  <1>6. ASSUME NEW d \in Datasets
        PROVE  /\ Numbers(d)' = 1..datasets'[d].active
               /\ datasets'[d].version =
                    IF datasets'[d].active = 0 THEN 0 ELSE datasets'[d].active + 1
    <2>1. CASE d = g
      <3>1. Numbers(g) = 1..datasets[g].active
        BY <1>1 DEF VersionNumbering
      <3>2. Numbers(d)' = (1..datasets[g].active) \union {n}
        BY <2>1, <1>5, <3>1
      <3>3. (1..datasets[g].active) \union {n} = 1..n
        BY <1>1
      <3> QED BY <2>1, <3>2, <3>3, <1>1, <1>4
    <2>2. CASE d # g
      BY <2>2, <1>3, <1>5 DEF VersionNumbering
    <2> QED BY <2>1, <2>2
  <1>7. ASSUME NEW x \in versions', NEW w \in versions',
               x.dataset = w.dataset, x.number = w.number
        PROVE  x = w
    <2>1. \A y \in versions : ~(y.dataset = g /\ y.number = n)
      <3> SUFFICES ASSUME NEW y \in versions, y.dataset = g, y.number = n PROVE FALSE
        OBVIOUS
      <3>1. n \in Numbers(g)
        BY DEF Numbers
      <3> QED BY <3>1, <1>1 DEF VersionNumbering
    <2> QED BY <2>1, <1>1, <1>2, <1>7 DEF VersionNumbering
  <1> QED BY <1>3, <1>6, <1>7 DEF VersionNumbering

\* Every step preserves the numbering of the versions.
LEMMA VersionStep ==
    ASSUME TypeOK, RowInv, VersionInv, [Next]_vars
    PROVE  VersionInv'
  <1> USE DEF VersionInv
  <1>1. DatasetLockInv'
    BY DatasetLockStep
  <1>2. CASE UNCHANGED vars
    BY <1>1, <1>2 DEF NumberInv, VersionNumbering, Numbers, Goal, vars
  <1>3. ASSUME NEW c \in Calls, Act(c) PROVE NumberInv' /\ VersionNumbering'
    <2>1. CASE CommitSuccess(c)
      <3>1. VersionNumbering' /\ \A d \in Datasets : d # Goal(c) => datasets'[d] = datasets[d]
        BY <2>1, CommitVersion
      <3>2. ASSUME NEW e \in Calls, call'[e].pc = "commit"
            PROVE  call'[e].number = datasets'[Goal(e)'].active + 1
        <4>1. e # c
          BY <2>1, <3>2 DEF CommitSuccess, Return, Idle, TypeOK
        <4>2. call'[e] = call[e] /\ Goal(e)' = Goal(e)
          BY <4>1, <1>3, OthersStay DEF Goal
        <4>3. Goal(e) \in Datasets /\ Goal(c) \in Datasets
          BY <2>1, <3>2, <4>2, GoalType DEF CommitSuccess, Idle
        <4>4. Goal(e) # Goal(c)
          BY <2>1, <3>2, <4>1, <4>2, <4>3 DEF CommitSuccess, DatasetLockInv, HoldsDataset
        <4> QED BY <3>1, <3>2, <4>2, <4>3, <4>4 DEF NumberInv
      <3> QED BY <3>1, <3>2 DEF NumberInv
    <2>2. CASE ~CommitSuccess(c)
      <3>1. UNCHANGED <<versions, datasets>>
        BY <1>3, <2>2, OnlyCommitPublishes
      <3>2. VersionNumbering'
        BY <3>1 DEF VersionNumbering, Numbers
      <3>3. ASSUME NEW e \in Calls, call'[e].pc = "commit"
            PROVE  call'[e].number = datasets'[Goal(e)'].active + 1
        <4>1. CASE e # c
          BY <4>1, <1>3, <3>1, <3>3, OthersStay DEF NumberInv, Goal
        <4>2. CASE e = c
          <5>1. Goal(c)' = Goal(c) /\ call[c] # Idle
            BY <1>3, <3>3, <4>2, Moves DEF Goal, Idle
          <5>2. Goal(c) \in Datasets
            BY <5>1, GoalType
          <5>3. CASE call'[c].number = 1 /\ datasets[Goal(c)] = NoDataset
            BY <3>1, <4>2, <5>1, <5>3 DEF NoDataset
          <5>4. CASE \E k \in Numbers(Goal(c)) \union {0} :
                       IsMaxNumber(Goal(c), k) /\ call'[c].number = k + 1
            BY <3>1, <4>2, <5>1, <5>2, <5>4, MaxIsActive
          <5> QED BY <1>3, <3>3, <4>2, <5>3, <5>4, Moves
        <4> QED BY <4>1, <4>2
      <3> QED BY <3>2, <3>3 DEF NumberInv
    <2> QED BY <2>1, <2>2
  <1> QED BY <1>1, <1>2, <1>3 DEF Next, Act

(* The versions of every dataset are numbered 1..n, the active one is n: the
   locks of commit_success are enough, whatever else the calls do. *)
THEOREM VersionsNumbered == Spec => []VersionNumbering
  <1>1. Init => VersionInv
    BY DEF Init, VersionInv, DatasetLockInv, HoldsDataset, NumberInv, VersionNumbering,
           Numbers, NoDataset, Idle
  <1>2. TypeOK /\ RowInv /\ VersionInv /\ [Next]_vars => VersionInv'
    BY VersionStep
  <1>3. VersionInv => VersionNumbering
    BY DEF VersionInv
  <1> QED BY <1>1, <1>2, <1>3, TypeCorrect, PTL DEF Spec

------------------------------------------------------------------------------
(* Run rows *)

(* What a step does to the run rows. *)
LEMMA RunsFrame ==
    ASSUME TypeOK, RowInv, NEW c \in Calls, Act(c)
    PROVE  LET r == call[c].run IN
           \/ runs' = runs
           \/ /\ ~KeyTaken(call[c].copy.job, call[c].copy.key)
              /\ r \in Runs /\ runs' = [runs EXCEPT ![r] = call[c].copy]
              /\ call[c].copy.hash = None /\ call[c].copy.version = 0
           \/ /\ r \in Runs /\ runs[r] \in Run /\ versions \subseteq versions'
              /\ \E row \in Run :
                   /\ runs' = [runs EXCEPT ![r] = row]
                   /\ row.job = runs[r].job /\ row.key = runs[r].key
                   /\ \/ row.hash = runs[r].hash /\ row.version = runs[r].version
                      \/ row.hash = None /\ row.version = 0
                      \/ \E v \in versions' :
                           /\ v.run = r /\ v.dataset = Target[row.job]
                           /\ v.number = row.version /\ v.hash = row.hash
  <1> DEFINE r == call[c].run
  <1>1. CASE InsertRun(c)
    <2>1. /\ call[c].pc = "insert" /\ r \in Runs
          /\ call[c].copy.hash = None /\ call[c].copy.version = 0
      BY <1>1, CallShape DEF InsertRun, Idle, RowInv, NewRunOK
    <2> QED BY <1>1, <2>1 DEF InsertRun
  <1>2. CASE UpdateRun(c)
    <2> DEFINE row == Flush(runs[r], call[c].loaded, call[c].copy)
    <2>1. call[c] \in SaveCall /\ r \in Runs /\ call[c].copy \in Run /\ runs[r] \in Run
      BY <1>2, CallShape DEF UpdateRun, Idle, RowInv, SaveOK, TypeOK
    <2>2. /\ call[c].copy.hash = None /\ call[c].copy.version = 0
          /\ (call[c].loaded.hash = None) <=> (call[c].loaded.version = 0)
      BY <1>2 DEF UpdateRun, RowInv, SaveOK
    <2>3. /\ row \in Run /\ row.job = runs[r].job /\ row.key = runs[r].key
          /\ \/ row.hash = runs[r].hash /\ row.version = runs[r].version
             \/ row.hash = None /\ row.version = 0
      BY <2>1, <2>2 DEF Flush, Run
    <2>4. runs' = [runs EXCEPT ![r] = row] /\ versions' = versions
      BY <1>2 DEF UpdateRun
    <2> HIDE DEF row
    <2> QED BY <2>1, <2>3, <2>4
  <1>3. CASE LockRun(c)
    <2>1. call[c].pc = "lockRun" /\ r \in Runs /\ runs[r] \in Run
      BY <1>3, CallShape DEF LockRun, Idle, RowInv, CallbackOK, TypeOK
    <2> DEFINE row == [runs[r] EXCEPT !.status = "QUARANTINED"]
    <2>2. /\ row \in Run /\ row.job = runs[r].job /\ row.key = runs[r].key
          /\ row.hash = runs[r].hash /\ row.version = runs[r].version
      BY <2>1 DEF Run, RunStatus
    <2>3. runs' = runs \/ runs' = [runs EXCEPT ![r] = row]
      BY <1>3, <2>1 DEF LockRun, TypeOK
    <2>4. versions' = versions
      BY <1>3 DEF LockRun
    <2> HIDE DEF row
    <2> QED BY <2>1, <2>2, <2>3, <2>4
  <1>4. CASE CommitSuccess(c)
    <2> DEFINE v == NewVersion(c)
               row == [runs[r] EXCEPT !.status = "SUCCEEDED", !.hash = v.hash,
                                      !.version = v.number]
    <2>1. /\ r \in Runs /\ runs[r] \in Run /\ v \in Version /\ v.run = r
          /\ v.hash \in Hashes /\ v.number \in Nat
          /\ v.dataset = Target[runs[r].job]
      BY <1>4, CommitFacts DEF NewVersion
    <2>2. /\ row \in Run /\ row.job = runs[r].job /\ row.key = runs[r].key
          /\ row.hash = v.hash /\ row.version = v.number
      BY <2>1 DEF Run, RunStatus
    <2>3. runs' = [runs EXCEPT ![r] = row]
      BY <1>4, <2>1 DEF CommitSuccess, TypeOK
    <2>4. versions' = versions \union {v}
      BY <1>4 DEF CommitSuccess
    <2> HIDE DEF row, v
    <2> QED BY <2>1, <2>2, <2>3, <2>4
  <1>5. CASE ~(InsertRun(c) \/ UpdateRun(c) \/ LockRun(c) \/ CommitSuccess(c))
    BY <1>5 DEF Act, Request, StartRun, RetryRun, CancelRun, FailRun, Transition, CompleteRun,
         Step, FindRun, SelectRun, LockDataset, InsertDataset, NextNumber,
         RollbackCommit, Crash, db
  <1> QED BY <1>1, <1>2, <1>3, <1>4, <1>5

\* The unique constraint keeps the keys of a job apart.
LEMMA KeyStep ==
    ASSUME TypeOK, RowInv, OneRunPerKey, [Next]_vars
    PROVE  OneRunPerKey'
  <1>1. CASE runs' = runs
    BY <1>1 DEF OneRunPerKey
  <1>2. ASSUME NEW c \in Calls, Act(c) PROVE OneRunPerKey'
    <2> DEFINE r == call[c].run
    <2>1. CASE /\ ~KeyTaken(call[c].copy.job, call[c].copy.key)
               /\ r \in Runs /\ runs' = [runs EXCEPT ![r] = call[c].copy]
      BY <2>1 DEF OneRunPerKey, KeyTaken, TypeOK
    <2>2. CASE /\ r \in Runs /\ runs[r] \in Run
               /\ \E row \in Run :
                    /\ runs' = [runs EXCEPT ![r] = row]
                    /\ row.job = runs[r].job /\ row.key = runs[r].key
      BY <2>2, NoRunNotARun DEF OneRunPerKey, TypeOK
    <2> QED BY <1>1, <1>2, <2>1, <2>2, RunsFrame
  <1> QED BY <1>1, <1>2 DEF Next, Act, vars

(* start_run and retry_run create at most one run per job and idempotency key,
   although they look the key up and insert in two transactions. *)
THEOREM KeysUnique == Spec => []OneRunPerKey
  <1>1. Init => OneRunPerKey
    BY DEF Init, OneRunPerKey
  <1>2. TypeOK /\ RowInv /\ OneRunPerKey /\ [Next]_vars => OneRunPerKey'
    BY KeyStep
  <1> QED BY <1>1, <1>2, TypeCorrect, PTL DEF Spec

\* Every step keeps recorded results equal to published versions.
LEMMA ResultStep ==
    ASSUME TypeOK, RowInv, ResultIsAVersion, [Next]_vars
    PROVE  ResultIsAVersion'
  <1>1. CASE UNCHANGED vars
    BY <1>1 DEF ResultIsAVersion, vars
  <1>2. ASSUME NEW c \in Calls, Act(c) PROVE ResultIsAVersion'
    <2>1. versions \subseteq versions'
      BY <1>2, OnlyCommitPublishes DEF CommitSuccess
    <2>2. SUFFICES ASSUME NEW q \in Runs, runs'[q].hash # None \/ runs'[q].version # 0
                   PROVE  \E v \in versions' : /\ v.run = q
                                               /\ v.dataset = Target[runs'[q].job]
                                               /\ v.number = runs'[q].version
                                               /\ v.hash = runs'[q].hash
      BY DEF ResultIsAVersion
    <2>3. CASE runs'[q] = runs[q]
      BY <2>1, <2>2, <2>3 DEF ResultIsAVersion
    <2>4. CASE runs'[q] # runs[q]
      BY <1>2, <2>1, <2>2, <2>4, RunsFrame DEF ResultIsAVersion, TypeOK
    <2> QED BY <2>3, <2>4
  <1> QED BY <1>1, <1>2 DEF Next, Act

(* The result a run row records is always a version this run published. *)
THEOREM ResultsAreVersions == Spec => []ResultIsAVersion
  <1>1. Init => ResultIsAVersion
    BY DEF Init, ResultIsAVersion, NoRun
  <1>2. TypeOK /\ RowInv /\ ResultIsAVersion /\ [Next]_vars => ResultIsAVersion'
    BY ResultStep
  <1> QED BY <1>1, <1>2, TypeCorrect, PTL DEF Spec

------------------------------------------------------------------------------
(* Runs that succeeded *)

(* A call that holds the lock of a run works on a run that has not succeeded. *)
PastLockInv ==
    \A c \in Calls :
        call[c].pc \in {"lockDataset", "insertDataset", "nextNumber", "commit"} =>
            runs[call[c].run].status # "SUCCEEDED"

SuccessInv == RunLockInv /\ PastLockInv

(* How a step of c changes a run row: an inserted run is RUNNING, a save writes
   what cancel_run or fail_run set, a gate QUARANTINED, a commit SUCCEEDED. *)
LEMMA StatusFrame ==
    ASSUME TypeOK, RowInv, NEW c \in Calls, Act(c), NEW q \in Runs, runs'[q] # runs[q]
    PROVE  /\ call[c].run = q
           /\ \/ InsertRun(c) /\ runs[q] = NoRun /\ runs'[q].status = "RUNNING"
              \/ UpdateRun(c) /\ (runs'[q].status = "SUCCEEDED" => runs[q].status = "SUCCEEDED")
              \/ LockRun(c) /\ runs[q].status # "SUCCEEDED" /\ runs'[q].status = "QUARANTINED"
              \/ CommitSuccess(c) /\ runs'[q].status = "SUCCEEDED"
  <1> DEFINE r == call[c].run
  <1>1. CASE InsertRun(c)
    <2>1. /\ call[c].pc = "insert" /\ r \in Runs /\ runs[r] = NoRun
          /\ call[c].copy.status = "RUNNING"
      BY <1>1, CallShape DEF InsertRun, Idle, RowInv, NewRunOK
    <2>2. runs' = runs \/ runs' = [runs EXCEPT ![r] = call[c].copy]
      BY <1>1 DEF InsertRun
    <2> QED BY <1>1, <2>1, <2>2 DEF TypeOK
  <1>2. CASE UpdateRun(c)
    <2> DEFINE row == Flush(runs[r], call[c].loaded, call[c].copy)
    <2>1. r \in Runs /\ runs[r] \in Run /\ call[c].copy.status \in {"CANCEL_REQUESTED", "FAILED"}
      BY <1>2, CallShape DEF UpdateRun, Idle, RowInv, SaveOK, TypeOK
    <2>2. row.status = "SUCCEEDED" => runs[r].status = "SUCCEEDED"
      BY <2>1 DEF Flush, Run
    <2>3. runs' = [runs EXCEPT ![r] = row]
      BY <1>2 DEF UpdateRun
    <2> HIDE DEF row
    <2> QED BY <1>2, <2>1, <2>2, <2>3 DEF TypeOK
  <1>3. CASE LockRun(c)
    <2>1. r \in Runs /\ runs[r] \in Run
      BY <1>3, CallShape DEF LockRun, Idle, RowInv, CallbackOK, TypeOK
    <2>2. \/ runs' = runs
          \/ /\ runs' = [runs EXCEPT ![r].status = "QUARANTINED"]
             /\ runs[r].status # "SUCCEEDED"
      BY <1>3 DEF LockRun, AlreadySucceeded
    <2> QED BY <1>3, <2>1, <2>2 DEF TypeOK, Run
  <1>4. CASE CommitSuccess(c)
    <2> DEFINE row == [runs[r] EXCEPT !.status = "SUCCEEDED", !.hash = NewVersion(c).hash,
                                      !.version = NewVersion(c).number]
    <2>1. r \in Runs /\ runs[r] \in Run /\ NewVersion(c).run = r
      BY <1>4, CommitFacts DEF NewVersion
    <2>2. row.status = "SUCCEEDED"
      BY <2>1 DEF Run
    <2>3. runs' = [runs EXCEPT ![r] = row]
      BY <1>4, <2>1 DEF CommitSuccess, TypeOK
    <2> HIDE DEF row
    <2> QED BY <1>4, <2>1, <2>2, <2>3 DEF TypeOK
  <1>5. CASE ~(InsertRun(c) \/ UpdateRun(c) \/ LockRun(c) \/ CommitSuccess(c))
    BY <1>5 DEF Act, Request, StartRun, RetryRun, CancelRun, FailRun, Transition, CompleteRun,
         Step, FindRun, SelectRun, LockDataset, InsertDataset, NextNumber,
         RollbackCommit, Crash, db
  <1> QED BY <1>1, <1>2, <1>3, <1>4, <1>5

\* While a call holds the lock of a run nobody makes that run succeed.
LEMMA SuccessStep ==
    ASSUME TypeOK, RowInv, SuccessInv, [Next]_vars
    PROVE  SuccessInv'
  <1> USE DEF SuccessInv
  <1>1. RunLockInv'
    BY RunLockStep
  <1>2. CASE UNCHANGED vars
    BY <1>1, <1>2 DEF PastLockInv, vars
  <1>3. ASSUME NEW c \in Calls, Act(c) PROVE PastLockInv'
    <2> DEFINE inside == {"lockDataset", "insertDataset", "nextNumber", "commit"}
    <2>1. SUFFICES ASSUME NEW e \in Calls, call'[e].pc \in inside
                   PROVE  runs'[call'[e].run].status # "SUCCEEDED"
      BY DEF PastLockInv
    <2>2. /\ call[e].run \in Runs /\ call'[e].run = call[e].run
          /\ \/ call[e].pc \in inside
             \/ e = c /\ LockRun(c) /\ ~AlreadySucceeded(c)
      <3>1. CASE e # c
        <4>1. call'[e] = call[e]
          BY <1>3, <3>1, OthersStay
        <4>2. call[e] # Idle
          BY <2>1, <4>1 DEF Idle
        <4> QED BY <2>1, <4>1, <4>2, CallShape
      <3>2. CASE e = c
        <4>1. /\ call'[c].run = call[c].run
              /\ call[c].pc \in inside \union {"lockRun"}
          BY <1>3, <2>1, <3>2, Moves
        <4>2. call[c] # Idle
          BY <4>1 DEF Idle
        <4>3. CASE call[c].pc = "lockRun"
          <5>1. ~Return(c)
            BY <2>1, <3>2 DEF Return, Idle, TypeOK
          <5>2. LockRun(c)
            BY <1>3, <4>2, <4>3, <5>1
               DEF Act, Request, StartRun, RetryRun, CancelRun, FailRun, Transition,
                   CompleteRun, Begin, Step, FindRun, InsertRun, SelectRun, UpdateRun,
                   LockDataset, InsertDataset, NextNumber, CommitSuccess, RollbackCommit, Crash
          <5> QED BY <3>2, <4>1, <4>2, <5>1, <5>2, CallShape DEF LockRun
        <4> QED BY <3>2, <4>1, <4>2, <4>3, CallShape
      <3> QED BY <3>1, <3>2
    <2>3. runs[call[e].run].status # "SUCCEEDED"
      BY <2>2 DEF PastLockInv, AlreadySucceeded
    <2>4. CASE runs'[call[e].run] = runs[call[e].run]
      BY <2>2, <2>3, <2>4
    <2>5. CASE runs'[call[e].run] # runs[call[e].run]
      <3>1. ~CommitSuccess(c)
        <4>1. SUFFICES ASSUME CommitSuccess(c) PROVE FALSE
          OBVIOUS
        <4>2. call[c].run = call[e].run /\ call[c].pc = "commit"
          BY <1>3, <2>2, <2>5, <4>1, StatusFrame DEF CommitSuccess
        <4>3. call'[c].pc = "idle"
          BY <4>1 DEF CommitSuccess, Return, Idle, TypeOK
        <4>4. e # c /\ call[e].pc \in inside
          BY <2>1, <2>2, <4>3
        <4> QED BY <2>2, <4>2, <4>4 DEF RunLockInv, HoldsRun
      <3> QED BY <1>3, <2>2, <2>3, <2>5, <3>1, StatusFrame
    <2> QED BY <2>4, <2>5
  <1> QED BY <1>1, <1>2, <1>3 DEF Next, Act

\* No call holds a lock initially.
LEMMA SuccessInit == Init => SuccessInv
  BY DEF Init, SuccessInv, RunLockInv, PastLockInv, HoldsRun, Idle

\* What one step does to a run that succeeded.
LEMMA SucceededStep ==
    ASSUME TypeOK, RowInv, SuccessInv, [Next]_vars,
           NEW r \in Runs, runs[r].status = "SUCCEEDED"
    PROVE  /\ VersionsOf(r)' = VersionsOf(r)
           /\ runs'[r] = runs[r] \/ \E c \in Calls : SavesStale(c, r) /\ UpdateRun(c)
  <1>1. CASE UNCHANGED vars
    BY <1>1 DEF VersionsOf, vars
  <1>2. ASSUME NEW c \in Calls, Act(c)
        PROVE  /\ VersionsOf(r)' = VersionsOf(r)
               /\ runs'[r] = runs[r] \/ (SavesStale(c, r) /\ UpdateRun(c))
    <2>1. CommitSuccess(c) => call[c].run # r
      BY DEF SuccessInv, PastLockInv, CommitSuccess
    <2>2. VersionsOf(r)' = VersionsOf(r)
      <3>1. CASE CommitSuccess(c)
        BY <2>1, <3>1 DEF VersionsOf, CommitSuccess, NewVersion
      <3>2. CASE ~CommitSuccess(c)
        BY <1>2, <3>2, OnlyCommitPublishes DEF VersionsOf
      <3> QED BY <3>1, <3>2
    <2>3. CASE runs'[r] # runs[r]
      <3>1. call[c].run = r /\ UpdateRun(c)
        BY <1>2, <2>1, <2>3, StatusFrame DEF NoRun
      <3> QED BY <2>2, <3>1 DEF SavesStale, UpdateRun, Return, TypeOK
    <2> QED BY <2>2, <2>3
  <1> QED BY <1>1, <1>2 DEF Next, Act

(* No callback undoes or repeats a success, whenever it read the run: only the
   stale save of a cancel_run or fail_run changes the row of a succeeded run. *)
THEOREM OnlyStaleSaves == Spec => OnlyStaleSavesUndo
  <1> DEFINE Step1 == \A r \in Runs :
         runs[r].status = "SUCCEEDED" =>
            /\ VersionsOf(r)' = VersionsOf(r)
            /\ runs'[r] = runs[r] \/ \E c \in Calls : SavesStale(c, r)
  <1>1. TypeOK /\ RowInv /\ SuccessInv /\ [Next]_vars => SuccessInv'
    BY SuccessStep
  <1>2. TypeOK /\ RowInv /\ SuccessInv /\ [Next]_vars => [Step1]_vars
    BY SucceededStep
  <1>3. Spec => []SuccessInv
    BY <1>1, SuccessInit, TypeCorrect, PTL DEF Spec
  <1> QED BY <1>2, <1>3, TypeCorrect, PTL DEF Spec, OnlyStaleSavesUndo

(* A run that was stopped is moved on only by calls that read it before. *)
THEOREM StoppedStay == Spec => StoppedRunsStay
  <1> DEFINE Stays == \A r \in Runs :
         runs[r].status \in {"CANCEL_REQUESTED", "FAILED", "QUARANTINED", "CANCELLED"} =>
            runs'[r] = runs[r] \/ \E c \in Calls : ReadAsRunning(c, r) /\ call'[c] = Idle
  <1>1. ASSUME TypeOK, RowInv, NEW c \in Calls, Act(c), NEW r \in Runs,
               runs[r].status \in {"CANCEL_REQUESTED", "FAILED", "QUARANTINED", "CANCELLED"},
               runs'[r] # runs[r]
        PROVE  ReadAsRunning(c, r) /\ call'[c] = Idle
    <2>1. call[c].run = r /\ runs[r] # NoRun
      BY <1>1, StatusFrame DEF NoRun
    <2>2. CASE UpdateRun(c)
      BY <1>1, <2>1, <2>2 DEF UpdateRun, ReadAsRunning, Return, TypeOK
    <2>3. CASE LockRun(c)
      <3>1. call[c].copy.status = "RUNNING" /\ Return(c)
        BY <1>1, <2>3 DEF LockRun
      <3> QED BY <2>1, <3>1, <1>1 DEF ReadAsRunning, Return, TypeOK
    <2>4. CASE CommitSuccess(c)
      BY <1>1, <2>1, <2>4 DEF CommitSuccess, Refused, ReadAsRunning, Return, TypeOK
    <2> QED BY <1>1, <2>1, <2>2, <2>3, <2>4, StatusFrame
  <1>2. TypeOK /\ RowInv /\ [Next]_vars => [Stays]_vars
    BY <1>1 DEF Next, Act, vars
  <1> QED BY <1>2, TypeCorrect, PTL DEF Spec, StoppedRunsStay

------------------------------------------------------------------------------
(* Without cancel_run and fail_run *)

(* No call saves a run, and a run that published has succeeded. *)
PublishedInv ==
    /\ \A c \in Calls : call[c].pc \notin {"select", "update"}
    /\ \A v \in versions : v.run \in Runs /\ runs[v.run].status = "SUCCEEDED"
    /\ OneVersionPerRun

\* Every step of starts, retries and callbacks keeps one version per run.
LEMMA PublishedStep ==
    ASSUME Operations \intersect {"cancel", "fail"} = {},
           TypeOK, RowInv, SuccessInv, PublishedInv, [Next]_vars
    PROVE  PublishedInv'
  <1> USE DEF PublishedInv
  <1>1. CASE UNCHANGED vars
    BY <1>1 DEF OneVersionPerRun, vars
  <1>2. ASSUME NEW c \in Calls, Act(c) PROVE PublishedInv'
    <2>1. ASSUME NEW e \in Calls PROVE call'[e].pc \notin {"select", "update"}
      <3>1. CASE e # c
        BY <1>2, <3>1, OthersStay
      <3>2. CASE e = c
        <4>1. ASSUME Return(c) PROVE call'[c].pc = "idle"
          BY <4>1 DEF Return, Idle, TypeOK
        <4>2. ASSUME NEW p, Goto(c, p) PROVE call'[c].pc = p
          <5>1. call'[c] = [call[c] EXCEPT !.pc = p] /\ call[c] \in Call
            BY <4>2 DEF Goto, TypeOK
          <5> QED BY <5>1 DEF Call, Idle, NewRunCall, SaveCall, CallbackCall, CommitCall
        <4>3. CASE Request(c)
          <5>1. \A p, r, row : [Idle EXCEPT !.pc = p, !.run = r, !.copy = row].pc = p
            BY DEF Idle
          <5>2. \A p, r, row, h, q :
                  [Idle EXCEPT !.pc = p, !.run = r, !.copy = row, !.hash = h, !.pass = q].pc = p
            BY DEF Idle
          <5>3. \A r \in Runs : ~CancelRun(c, r) /\ ~FailRun(c, r)
            BY DEF CancelRun, FailRun, Transition, Begin
          <5>4. ASSUME NEW j \in Jobs, NEW k \in Keys, NEW r \in Runs, StartRun(c, j, k, r)
                PROVE  call'[c].pc = "insert"
            BY <5>1, <5>4 DEF StartRun, TypeOK
          <5>5. ASSUME NEW p \in Runs, NEW k \in Keys, NEW r \in Runs, RetryRun(c, p, k, r)
                PROVE  call'[c].pc = "find"
            BY <5>1, <5>5 DEF RetryRun, TypeOK
          <5>6. ASSUME NEW r \in Runs, NEW h \in Hashes, NEW q \in BOOLEAN,
                       CompleteRun(c, r, h, q)
                PROVE  call'[c].pc = "lockRun"
            BY <5>2, <5>6 DEF CompleteRun, TypeOK
          <5>7. call'[c].pc \in {"insert", "find", "lockRun"}
            BY <4>3, <5>3, <5>4, <5>5, <5>6 DEF Request
          <5> QED BY <3>2, <5>7
        <4>4. CASE InsertDataset(c) \/ NextNumber(c)
          <5>1. call'[c].pc = "commit" \/ Return(c)
            <6>1. call[c] \in CallbackCall
              BY <4>4, CallShape DEF InsertDataset, NextNumber
            <6>2. Return(c) \/ \E n : call'[c] = [call[c] EXCEPT !.pc = "commit", !.number = n]
              BY <4>4 DEF InsertDataset, NextNumber, TypeOK
            <6> QED BY <6>1, <6>2 DEF CallbackCall
          <5> QED BY <3>2, <4>1, <5>1
        <4>5. CASE Step(c) \/ Crash(c)
          BY <3>2, <4>1, <4>2, <4>4, <4>5
             DEF Step, Crash, FindRun, InsertRun, SelectRun, UpdateRun, LockRun, LockDataset,
                 CommitSuccess, RollbackCommit
        <4> QED BY <1>2, <4>3, <4>5 DEF Act
      <3> QED BY <3>1, <3>2
    <2>2. ASSUME NEW r \in Runs, runs[r].status = "SUCCEEDED" PROVE runs'[r] = runs[r]
      BY <2>2, SucceededStep DEF UpdateRun
    <2>3. CASE CommitSuccess(c)
      <3>1. /\ versions' = versions \union {NewVersion(c)}
            /\ NewVersion(c).run = call[c].run /\ call[c].run \in Runs
        BY <2>3, CommitFacts DEF CommitSuccess, NewVersion
      <3>2. runs[call[c].run].status # "SUCCEEDED"
        BY <2>3 DEF SuccessInv, PastLockInv, CommitSuccess
      <3>3. runs'[call[c].run].status = "SUCCEEDED"
        <4>1. runs[call[c].run] \in Run
          BY <2>3, CommitFacts
        <4> QED BY <2>3, <3>1, <4>1 DEF CommitSuccess, TypeOK, Run
      <3>4. \A v \in versions : v.run # call[c].run
        BY <3>2
      <3> QED BY <2>1, <2>2, <3>1, <3>3, <3>4 DEF OneVersionPerRun
    <2>4. CASE ~CommitSuccess(c)
      <3>1. versions' = versions
        BY <1>2, <2>4, OnlyCommitPublishes
      <3> QED BY <2>1, <2>2, <3>1 DEF OneVersionPerRun
    <2> QED BY <2>3, <2>4
  <1> QED BY <1>1, <1>2 DEF Next, Act

(* Callbacks alone, repeated, concurrent and with different hashes, and after
   any retries, publish at most one version per run: the second version of the
   republishing run needs a cancel_run or a fail_run. *)
THEOREM CallbacksPublishOnce ==
    ASSUME Operations \intersect {"cancel", "fail"} = {}
    PROVE  Spec => []OneVersionPerRun
  <1>1. Init => PublishedInv
    BY DEF Init, PublishedInv, OneVersionPerRun, Idle
  <1>2. TypeOK /\ RowInv /\ SuccessInv /\ PublishedInv /\ [Next]_vars => PublishedInv'
    BY PublishedStep
  <1>3. TypeOK /\ RowInv /\ SuccessInv /\ [Next]_vars => SuccessInv'
    BY SuccessStep
  <1>4. PublishedInv => OneVersionPerRun
    BY DEF PublishedInv
  <1> QED BY <1>1, <1>2, <1>3, <1>4, SuccessInit, TypeCorrect, PTL DEF Spec

------------------------------------------------------------------------------
(* Events *)

\* The outbox grows in two ways only: a quarantine and a commit.
LEMMA OutboxFrame ==
    ASSUME TypeOK, RowInv, NEW c \in Calls, Act(c)
    PROVE  \/ UNCHANGED <<versions, datasets, outbox>>
           \/ /\ UNCHANGED <<versions, datasets>>
              /\ \E e \in Event : /\ e.type = "IngestionRunQuarantined"
                                  /\ outbox' = Append(outbox, e)
           \/ /\ CommitSuccess(c)
              /\ NewVersion(c) \in Version
              /\ Ready(NewVersion(c)) \in Event
              /\ versions' = versions \union {NewVersion(c)}
              /\ outbox' = Append(outbox, Ready(NewVersion(c)))
  <1>1. CASE LockRun(c)
    <2>1. call[c].run \in Runs
      BY <1>1, CallShape DEF LockRun, Idle
    <2>2. /\ Quarantined(call[c].run) \in Event
          /\ Quarantined(call[c].run).type = "IngestionRunQuarantined"
      BY <2>1 DEF Quarantined, Event
    <2> QED BY <1>1, <2>2 DEF LockRun, Emit
  <1>2. CASE CommitSuccess(c)
    <2>1. NewVersion(c) \in Version
      BY <1>2, CommitFacts
    <2>2. Ready(NewVersion(c)) \in Event
      BY <2>1 DEF Ready, Event, Version
    <2> QED BY <1>2, <2>1, <2>2 DEF CommitSuccess, Emit
  <1>3. CASE ~(LockRun(c) \/ CommitSuccess(c))
    BY <1>3 DEF Act, Request, StartRun, RetryRun, CancelRun, FailRun, Transition, CompleteRun,
         Step, FindRun, InsertRun, SelectRun, UpdateRun, LockDataset, InsertDataset,
         NextNumber, RollbackCommit, Crash, db
  <1> QED BY <1>1, <1>2, <1>3

\* The new event follows every older event of its dataset.
LEMMA CommitEvent ==
    ASSUME TypeOK, RowInv, NumberInv, VersionNumbering, EventsMatchVersions,
           NEW c \in Calls, CommitSuccess(c)
    PROVE  EventsMatchVersions'
  <1> DEFINE v == NewVersion(c)
             e == Ready(v)
             n == Len(outbox)
  <1>1. /\ v \in Version /\ e \in Event /\ versions' = versions \union {v}
        /\ outbox' = Append(outbox, e)
    BY OutboxFrame, CommitFacts DEF Act, Step, CommitSuccess, Emit, Ready, Event, Version
  <1>2. /\ e.type = "DatasetVersionReady" /\ e.dataset = v.dataset /\ e.number = v.number
        /\ v.dataset = Goal(c) /\ v.number = datasets[Goal(c)].active + 1
        /\ datasets[Goal(c)].active \in Nat /\ Goal(c) \in Datasets
    BY CommitFacts DEF NumberInv, Ready, NewVersion, TypeOK, Dataset
  <1> HIDE DEF v, e
  <1>3. /\ n \in Nat /\ DOMAIN outbox = 1..n /\ DOMAIN outbox' = 1..(n + 1)
        /\ outbox'[n + 1] = e /\ \A i \in 1..n : outbox'[i] = outbox[i]
        /\ \A i \in 1..n : outbox[i] \in Event
    BY <1>1 DEF TypeOK
  <1>4. ASSUME NEW i \in 1..n, outbox[i].type = "DatasetVersionReady",
               outbox[i].dataset = Goal(c)
        PROVE  outbox[i].number < v.number
    <2>1. PICK w \in versions : outbox[i] = Ready(w)
      BY <1>3, <1>4 DEF EventsMatchVersions
    <2>2. w.number \in Numbers(Goal(c)) /\ outbox[i].number = w.number
      BY <1>4, <2>1 DEF Ready, Numbers
    <2> QED BY <1>2, <2>2 DEF VersionNumbering
  <1>5. ASSUME NEW w \in versions' PROVE \E i \in DOMAIN outbox' : outbox'[i] = Ready(w)
    <2>1. CASE w = v
      BY <1>3, <2>1 DEF e
    <2>2. CASE w # v
      <3>1. PICK i \in DOMAIN outbox : outbox[i] = Ready(w)
        BY <1>1, <1>5, <2>2 DEF EventsMatchVersions
      <3> QED BY <1>3, <3>1
    <2> QED BY <2>1, <2>2
  <1>6. ASSUME NEW i \in DOMAIN outbox', outbox'[i].type = "DatasetVersionReady"
        PROVE  \E w \in versions' : outbox'[i] = Ready(w)
    <2>1. CASE i = n + 1
      BY <1>1, <1>3, <2>1 DEF e
    <2>2. CASE i \in 1..n
      BY <1>1, <1>3, <1>6, <2>2 DEF EventsMatchVersions
    <2> QED BY <1>3, <2>1, <2>2
  <1>7. ASSUME NEW i \in DOMAIN outbox', NEW j \in DOMAIN outbox', i < j,
               outbox'[i].type = "DatasetVersionReady",
               outbox'[j].type = "DatasetVersionReady",
               outbox'[i].dataset = outbox'[j].dataset
        PROVE  outbox'[i].number < outbox'[j].number
    <2>1. i \in 1..n
      BY <1>3, <1>7
    <2>2. CASE j = n + 1
      BY <1>2, <1>3, <1>4, <1>7, <2>1, <2>2
    <2>3. CASE j \in 1..n
      BY <1>3, <1>7, <2>1, <2>3 DEF EventsMatchVersions
    <2> QED BY <1>3, <2>2, <2>3
  <1> QED BY <1>5, <1>6, <1>7 DEF EventsMatchVersions

\* A quarantine event changes nothing about the events of versions.
LEMMA QuarantineEvent ==
    ASSUME TypeOK, EventsMatchVersions, UNCHANGED versions,
           NEW e \in Event, e.type = "IngestionRunQuarantined", outbox' = Append(outbox, e)
    PROVE  EventsMatchVersions'
  <1> DEFINE n == Len(outbox)
  <1>1. /\ n \in Nat /\ DOMAIN outbox = 1..n /\ DOMAIN outbox' = 1..(n + 1)
        /\ outbox'[n + 1] = e /\ \A i \in 1..n : outbox'[i] = outbox[i]
    BY DEF TypeOK
  <1>2. \A i \in DOMAIN outbox' : outbox'[i].type = "DatasetVersionReady" => i \in 1..n
    BY <1>1
  <1>3. \A w \in versions' : \E i \in DOMAIN outbox' : outbox'[i] = Ready(w)
    <2> TAKE w \in versions'
    <2>1. PICK i \in DOMAIN outbox : outbox[i] = Ready(w)
      BY DEF EventsMatchVersions
    <2> QED BY <1>1, <2>1
  <1>4. \A i \in DOMAIN outbox' :
          outbox'[i].type = "DatasetVersionReady" => \E w \in versions' : outbox'[i] = Ready(w)
    BY <1>1, <1>2 DEF EventsMatchVersions
  <1>5. \A i, j \in DOMAIN outbox' :
          /\ i < j
          /\ outbox'[i].type = "DatasetVersionReady"
          /\ outbox'[j].type = "DatasetVersionReady"
          /\ outbox'[i].dataset = outbox'[j].dataset
          => outbox'[i].number < outbox'[j].number
    BY <1>1, <1>2 DEF EventsMatchVersions
  <1> QED BY <1>3, <1>4, <1>5 DEF EventsMatchVersions

\* Every step keeps events and versions in agreement.
LEMMA EventStep ==
    ASSUME TypeOK, RowInv, VersionInv, EventsMatchVersions, [Next]_vars
    PROVE  EventsMatchVersions'
  <1>1. CASE UNCHANGED <<versions, datasets, outbox>>
    BY <1>1 DEF EventsMatchVersions
  <1>2. ASSUME NEW c \in Calls, Act(c) PROVE EventsMatchVersions'
    BY <1>1, <1>2, OutboxFrame, QuarantineEvent, CommitEvent DEF VersionInv
  <1> QED BY <1>1, <1>2 DEF Next, Act, vars

(* Published versions and DatasetVersionReady events are one to one, and the
   events of a dataset are in version order. *)
THEOREM EventsAreVersions == Spec => []EventsMatchVersions
  <1>1. Init => EventsMatchVersions /\ VersionInv
    BY DEF Init, EventsMatchVersions, VersionInv, DatasetLockInv, HoldsDataset, NumberInv,
           VersionNumbering, Numbers, NoDataset, Idle
  <1>2. TypeOK /\ RowInv /\ VersionInv /\ EventsMatchVersions /\ [Next]_vars
          => EventsMatchVersions'
    BY EventStep
  <1>3. TypeOK /\ RowInv /\ VersionInv /\ [Next]_vars => VersionInv'
    BY VersionStep
  <1> QED BY <1>1, <1>2, <1>3, TypeCorrect, PTL DEF Spec

------------------------------------------------------------------------------
(* Waiting.  That calls come back is out of reach here, not what it rests on: calls
   that wait do so for calls that are further on, and every step brings a call
   nearer to its end. *)

\* A call waits for one that has the locks it waits for, and those come in order:
\* none, the run, the dataset.
Locks(c) ==
    CASE call[c].pc \in {"nextNumber", "commit"} -> 2
      [] call[c].pc \in {"lockDataset", "insertDataset"} -> 1
      [] OTHER -> 0

\* Who waits has fewer locks than who lets it wait.
LEMMA WaitsUpwards ==
    ASSUME NEW c, NEW b, WaitsFor(c, b)
    PROVE  Locks(c) < Locks(b)
  BY DEF WaitsFor, WaitsForRun, WaitsForDataset, HoldsRun, HoldsDataset, Locks

(* FOR UPDATE and the unique index let one transaction at a time hold a row: the
   locks that are read off the program counters exclude each other. *)
THEOREM LocksExclude == Spec => [](RunLockInv /\ DatasetLockInv)
  <1>1. Init => RunLockInv /\ DatasetLockInv
    BY DEF Init, Idle, RunLockInv, DatasetLockInv, HoldsRun, HoldsDataset
  <1>2. TypeOK /\ RunLockInv /\ DatasetLockInv /\ [Next]_vars => (RunLockInv /\ DatasetLockInv)'
    BY RunLockStep, DatasetLockStep
  <1> QED BY <1>1, <1>2, TypeCorrect, PTL DEF Spec

(* Of any calls the ones with the most locks wait for none of the others, so
   calls never wait for each other in a circle and PostgreSQL has no deadlock to
   break: commit_success locks the run before the dataset, save_run one row. *)
THEOREM NoDeadlock == Spec => []WaitsAreAcyclic
  <1>1. WaitsAreAcyclic
    <2> SUFFICES ASSUME NEW S \in (SUBSET Calls) \ {{}}
                 PROVE  \E c \in S : \A b \in S : ~WaitsFor(c, b)
      BY DEF WaitsAreAcyclic
    <2>1. \A c \in S : Locks(c) \in {0, 1, 2}
      BY DEF Locks
    <2>2. \E c \in S : \A b \in S : Locks(b) <= Locks(c)
      <3>1. CASE \E c \in S : Locks(c) = 2
        BY <2>1, <3>1
      <3>2. CASE (\A c \in S : Locks(c) # 2) /\ \E c \in S : Locks(c) = 1
        BY <2>1, <3>2
      <3>3. CASE \A c \in S : Locks(c) = 0
        BY <3>3
      <3> QED BY <2>1, <3>1, <3>2, <3>3
    <2>3. PICK c \in S : \A b \in S : Locks(b) <= Locks(c)
      BY <2>2
    <2> QED BY <2>1, <2>3, WaitsUpwards
  <1> QED BY <1>1, PTL

(* The transaction steps a call has left, at most. *)
StepsLeft == [idle |-> 0, insert |-> 1, find |-> 2, update |-> 1, select |-> 2, commit |-> 1,
              nextNumber |-> 2, insertDataset |-> 2, lockDataset |-> 3, lockRun |-> 4]

LEMMA StepMovesOn ==
    ASSUME TypeOK, NEW c \in Calls, Step(c)
    PROVE  StepsLeft[call'[c].pc] < StepsLeft[call[c].pc]
  <1>1. CASE Return(c) /\ call[c].pc # "idle"
    <2>1. call'[c].pc = "idle"
      BY <1>1 DEF Return, TypeOK, Idle
    <2>2. call[c].pc \in {"find", "insert", "select", "update", "lockRun", "lockDataset",
                         "insertDataset", "nextNumber", "commit"}
    <3>1. \A x \in NewRunCall : x.pc \in {"find", "insert"}
      BY DEF NewRunCall
    <3>2. \A x \in SaveCall : x.pc \in {"select", "update"}
      BY DEF SaveCall
    <3>3. \A x \in CallbackCall :
            x.pc \in {"lockRun", "lockDataset", "insertDataset", "nextNumber"}
      BY DEF CallbackCall
    <3>4. \A x \in CommitCall : x.pc = "commit"
      BY DEF CommitCall
    <3>5. call[c] # Idle /\ call[c] \in Call
      BY <1>1, CallShape DEF Idle
    <3> QED BY <3>1, <3>2, <3>3, <3>4, <3>5 DEF Call
    <2> QED BY <2>1, <2>2 DEF StepsLeft
  <1>2. ASSUME NEW p, Goto(c, p)
        PROVE  call'[c].pc = p
    BY <1>2, CallShape DEF Goto, TypeOK, Call, Idle, NewRunCall, SaveCall, CallbackCall, CommitCall
  <1>3. CASE FindRun(c)
    BY <1>1, <1>2, <1>3 DEF FindRun, StepsLeft
  <1>4. CASE SelectRun(c)
    <2>1. call[c] \in SaveCall
      BY <1>4, CallShape DEF SelectRun
    <2>2. call'[c].pc = "update"
      BY <1>4, <2>1 DEF SelectRun, TypeOK, SaveCall
    <2> QED BY <1>4, <2>2 DEF SelectRun, StepsLeft
  <1>5. CASE LockRun(c)
    BY <1>1, <1>2, <1>5 DEF LockRun, StepsLeft
  <1>6. CASE LockDataset(c)
    BY <1>2, <1>6 DEF LockDataset, StepsLeft
  <1>7. CASE InsertDataset(c) /\ ~Return(c)
    <2>1. call[c] \in CallbackCall
      BY <1>7, CallShape DEF InsertDataset
    <2>2. call'[c].pc = "commit"
      BY <1>7, <2>1 DEF InsertDataset, TypeOK, CallbackCall
    <2> QED BY <1>7, <2>2 DEF InsertDataset, StepsLeft
  <1>8. CASE NextNumber(c)
    <2>1. call[c] \in CallbackCall
      BY <1>8, CallShape DEF NextNumber
    <2>2. call'[c].pc = "commit"
      BY <1>8, <2>1 DEF NextNumber, TypeOK, CallbackCall
    <2> QED BY <1>8, <2>2 DEF NextNumber, StepsLeft
  <1>9. CASE InsertRun(c) \/ UpdateRun(c) \/ CommitSuccess(c) \/ RollbackCommit(c)
             \/ (InsertDataset(c) /\ Return(c))
    BY <1>1, <1>9 DEF InsertRun, UpdateRun, CommitSuccess, RollbackCommit, InsertDataset
  <1> QED BY <1>3, <1>4, <1>5, <1>6, <1>7, <1>8, <1>9 DEF Step

(* A call that has begun ends after at most four steps of its own: each one brings
   it nearer to its end, or ends it, and no step of another call sets it back. *)
CallsMoveOn ==
    [][\A c \in Calls :
         call[c] # Idle /\ call'[c] # call[c] =>
           call'[c] = Idle \/ StepsLeft[call'[c].pc] < StepsLeft[call[c].pc]]_vars

THEOREM CallsEndInTime == Spec => CallsMoveOn
  <1>1. TypeOK /\ [Next]_vars =>
          [\A c \in Calls :
             call[c] # Idle /\ call'[c] # call[c] =>
               call'[c] = Idle \/ StepsLeft[call'[c].pc] < StepsLeft[call[c].pc]]_vars
    <2> SUFFICES ASSUME TypeOK, Next,
                        NEW c \in Calls, call[c] # Idle, call'[c] # call[c]
                 PROVE  call'[c] = Idle \/ StepsLeft[call'[c].pc] < StepsLeft[call[c].pc]
      OBVIOUS
    <2>1. PICK d \in Calls : Act(d)
      BY DEF Next, Act
    <2>2. d = c
      BY <2>1, OthersStay
    <2>3. CASE Request(c)
      BY <2>3 DEF Request, StartRun, RetryRun, CancelRun, FailRun, Transition, CompleteRun, Begin
    <2>4. CASE Crash(c)
      BY <2>4 DEF Crash, Return, TypeOK
    <2>5. CASE Step(c)
      BY <2>5, StepMovesOn
    <2> QED BY <2>1, <2>2, <2>3, <2>4, <2>5 DEF Act
  <1> QED BY <1>1, TypeCorrect, PTL DEF Spec, CallsMoveOn

------------------------------------------------------------------------------
(* Refinement *)

\* A version is found under its dataset and number.
LEMMA VersionFound ==
    ASSUME VersionNumbering, NEW v \in versions
    PROVE  VersionAt(v.dataset, v.number) = v
  BY DEF VersionNumbering, VersionAt

\* A sequence that agrees with another one and holds one more entry.
LEMMA AppendedLog ==
    ASSUME NEW n \in Nat, NEW T, NEW e \in T,
           NEW old \in [1..n -> T], NEW new \in [1..(n + 1) -> T],
           \A k \in 1..n : new[k] = old[k],
           new[n + 1] = e
    PROVE  Len(old) = n /\ new = Append(old, e)
  <1>1. old \in Seq(T) /\ Len(old) = n
    OBVIOUS
  <1>2. new \in Seq(T) /\ Len(new) = n + 1
    OBVIOUS
  <1>3. Append(old, e) \in Seq(T) /\ Len(Append(old, e)) = n + 1
    BY <1>1
  <1>4. \A k \in 1..(n + 1) : Append(old, e)[k] = new[k]
    BY <1>1
  <1> QED BY <1>1, <1>2, <1>3, <1>4

\* A commit appends an entry to the log of its dataset, activates and announces it.
LEMMA CommitRefines ==
    ASSUME TypeOK, RowInv, VersionInv, NEW c \in Calls, CommitSuccess(c)
    PROVE  \E d \in Datasets, e \in [run : Runs, hash : Hashes] : Catalog!Publish(d, e)
  <1>1. PICK v \in Version : v = NewVersion(c)
    BY CommitFacts
  <1>2. PICK g \in Datasets : g = v.dataset
    BY DEF Version
  <1>3. PICK n \in Nat : n = datasets[g].active
    BY DEF TypeOK, Dataset
  <1>4. PICK entry \in [run : Runs, hash : Hashes] : entry = [run |-> v.run, hash |-> v.hash]
    BY DEF Version
  <1> DEFINE Log == [d \in Datasets |-> [k \in 1..datasets[d].active |->
                       [run |-> VersionAt(d, k).run, hash |-> VersionAt(d, k).hash]]]
             Active == [d \in Datasets |-> datasets[d].active]
             Announced == {<<outbox[i].dataset, outbox[i].number>> :
                    i \in {j \in DOMAIN outbox : outbox[j].type = "DatasetVersionReady"}}
  <1>5. /\ g = Goal(c) /\ v.number = n + 1 /\ versions' = versions \union {v}
    BY <1>1, <1>2, <1>3, CommitFacts
       DEF VersionInv, NumberInv, NewVersion, CommitSuccess
  <1>6. /\ VersionNumbering /\ VersionNumbering'
        /\ \A d \in Datasets : d # g => datasets'[d] = datasets[d]
    BY <1>5, CommitVersion DEF VersionInv
  <1>7. datasets'[g].active = n + 1
    BY <1>1, <1>2, <1>5 DEF CommitSuccess, TypeOK, Activate
  <1>8. ASSUME NEW d \in Datasets, NEW k \in 1..datasets[d].active
        PROVE  VersionAt(d, k)' = VersionAt(d, k)
    <2>1. PICK w \in versions : w.dataset = d /\ w.number = k
      BY <1>6 DEF VersionNumbering, Numbers
    <2>2. VersionAt(d, k) = w
      BY <1>6, <2>1, VersionFound
    <2>3. VersionAt(d, k)' = w
      <3>1. w \in versions'
        BY <1>5
      <3>2. \A x \in versions' : x.dataset = d /\ x.number = k => x = w
        BY <1>6, <2>1, <3>1 DEF VersionNumbering
      <3> QED BY <2>1, <3>1, <3>2 DEF VersionAt
    <2> QED BY <2>2, <2>3
  <1>9. VersionAt(g, n + 1)' = v
    <2>1. v \in versions'
      BY <1>5
    <2>2. \A x \in versions' : x.dataset = g /\ x.number = n + 1 => x = v
      BY <1>2, <1>5, <1>6, <2>1 DEF VersionNumbering
    <2> QED BY <1>2, <1>5, <2>1, <2>2 DEF VersionAt
  <1>10. outbox' = Append(outbox, Ready(v)) /\ outbox \in Seq(Event)
    BY <1>1 DEF CommitSuccess, Emit, TypeOK
  <1>11. /\ Ready(v).type = "DatasetVersionReady"
         /\ Ready(v).dataset = g /\ Ready(v).number = n + 1
    BY <1>2, <1>5 DEF Ready
  <1>12. Announced' = Announced \union {<<g, n + 1>>}
    <2> DEFINE m == Len(outbox)
    <2>1. /\ m \in Nat /\ DOMAIN outbox = 1..m /\ DOMAIN outbox' = 1..(m + 1)
          /\ outbox'[m + 1] = Ready(v) /\ \A i \in 1..m : outbox'[i] = outbox[i]
      BY <1>10
    <2>2. {j \in DOMAIN outbox' : outbox'[j].type = "DatasetVersionReady"} =
            {j \in DOMAIN outbox : outbox[j].type = "DatasetVersionReady"} \union {m + 1}
      BY <2>1, <1>11
    <2> QED BY <2>1, <2>2, <1>11
  <1>13. Active' = [Active EXCEPT ![g] = n + 1]
    BY <1>6, <1>7
  <1>14. /\ Log[g] = [k \in 1..n |->
                        [run |-> VersionAt(g, k).run, hash |-> VersionAt(g, k).hash]]
         /\ Log'[g] = [k \in 1..(n + 1) |->
                        [run |-> VersionAt(g, k)'.run, hash |-> VersionAt(g, k)'.hash]]
    BY <1>3, <1>7
  <1>15. Len(Log[g]) = n /\ Log'[g] = Append(Log[g], entry)
    <2>1. \A k \in 1..n : Log'[g][k] = Log[g][k]
      <3> TAKE k \in 1..n
      <3>1. VersionAt(g, k)' = VersionAt(g, k)
        BY <1>3, <1>8
      <3>2. k \in 1..(n + 1)
        OBVIOUS
      <3> HIDE DEF Log
      <3> QED BY <1>14, <3>1, <3>2
    <2>2. Log'[g][n + 1] = entry
      <3>1. n + 1 \in 1..(n + 1)
        OBVIOUS
      <3> HIDE DEF Log
      <3> QED BY <1>4, <1>9, <1>14, <3>1
    <2> DEFINE T == {Log'[g][k] : k \in 1..(n + 1)}
    <2>3. \A k \in 1..(n + 1) : Log'[g][k] \in T
      OBVIOUS
    <2> HIDE DEF Log, T
    <2>4. entry \in T
      BY <1>3, <2>2, <2>3
    <2>5. Log'[g] \in [1..(n + 1) -> T]
      BY <1>14, <2>3
    <2>6. Log[g] \in [1..n -> T]
      <3>1. \A k \in 1..n : Log[g][k] \in T
        BY <1>3, <2>1, <2>3
      <3> QED BY <1>14, <3>1
    <2> QED BY <1>3, <2>1, <2>2, <2>4, <2>5, <2>6, AppendedLog
  <1>16. Log' = [Log EXCEPT ![g] = Append(@, entry)]
    <2>1. ASSUME NEW d \in Datasets, d # g PROVE Log'[d] = Log[d]
      BY <2>1, <1>6, <1>8
    <2> QED BY <2>1, <1>15
  <1>17. Catalog!Publish(g, entry)
    BY <1>12, <1>13, <1>15, <1>16 DEF Catalog!Publish
  <1> QED BY <1>17

\* Every other step leaves what readers and consumers see unchanged.
LEMMA OtherRefines ==
    ASSUME TypeOK, RowInv, VersionInv, NEW c \in Calls, Act(c), ~CommitSuccess(c)
    PROVE  UNCHANGED Catalog!catalogVars
  <1>1. UNCHANGED <<versions, datasets>>
    BY OnlyCommitPublishes
  <1>2. {<<outbox[i].dataset, outbox[i].number>> :
            i \in {j \in DOMAIN outbox : outbox[j].type = "DatasetVersionReady"}}' =
        {<<outbox[i].dataset, outbox[i].number>> :
            i \in {j \in DOMAIN outbox : outbox[j].type = "DatasetVersionReady"}}
    <2>1. CASE outbox' = outbox
      BY <2>1
    <2>2. CASE outbox' # outbox
      <3>1. PICK e \in Event : e.type = "IngestionRunQuarantined" /\ outbox' = Append(outbox, e)
        BY <2>2, OutboxFrame
      <3> DEFINE m == Len(outbox)
      <3>2. /\ m \in Nat /\ DOMAIN outbox = 1..m /\ DOMAIN outbox' = 1..(m + 1)
            /\ outbox'[m + 1] = e /\ \A i \in 1..m : outbox'[i] = outbox[i]
        BY <3>1 DEF TypeOK
      <3>3. {j \in DOMAIN outbox' : outbox'[j].type = "DatasetVersionReady"} =
              {j \in DOMAIN outbox : outbox[j].type = "DatasetVersionReady"}
        BY <3>1, <3>2
      <3> QED BY <3>2, <3>3
    <2> QED BY <2>1, <2>2
  <1> QED BY <1>1, <1>2 DEF Catalog!catalogVars, VersionAt

(* The tables implement the abstract catalog: a commit of any call is one
   Publish, every other step is invisible to readers and consumers. *)
THEOREM CatalogImplemented == Spec => ImplementsCatalog
  <1>1. Init => Catalog!CatalogInit
    BY DEF Init, Catalog!CatalogInit, NoDataset
  <1>2. TypeOK /\ RowInv /\ VersionInv /\ [Next]_vars
          => [Catalog!CatalogNext]_Catalog!catalogVars
    <2> SUFFICES ASSUME TypeOK, RowInv, VersionInv, [Next]_vars
                 PROVE  Catalog!CatalogNext \/ UNCHANGED Catalog!catalogVars
      OBVIOUS
    <2>1. CASE UNCHANGED vars
      BY <2>1 DEF vars, Catalog!catalogVars, VersionAt
    <2>2. ASSUME NEW c \in Calls, Act(c)
          PROVE  Catalog!CatalogNext \/ UNCHANGED Catalog!catalogVars
      BY <2>2, CommitRefines, OtherRefines DEF Catalog!CatalogNext
    <2> QED BY <2>1, <2>2 DEF Next, Act
  <1>3. Init => VersionInv
    BY DEF Init, VersionInv, DatasetLockInv, HoldsDataset, NumberInv, VersionNumbering,
           Numbers, NoDataset, Idle
  <1>4. TypeOK /\ RowInv /\ VersionInv /\ [Next]_vars => VersionInv'
    BY VersionStep
  <1> QED BY <1>1, <1>2, <1>3, <1>4, TypeCorrect, PTL
          DEF Spec, ImplementsCatalog, Catalog!CatalogSpec
=============================================================================
