------------------------ MODULE WorkerTerminals_proofs ------------------------
(***************************************************************************)
(* Theorems about WorkerTerminals, for every set of dispatches and panes   *)
(* and every bound on processes, waiting calls and runs of the runtime.    *)
(***************************************************************************)
EXTENDS WorkerTerminals, TLAPS

-----------------------------------------------------------------------------
(* The invariant *)

(* A dispatch that started has a seat and at most one row, which is its own *)
(* or one it took over.                                                     *)
OwnersOK ==
  /\ \A r \in Rows : /\ worker[r] # "absent" /\ worker[row[r].owner] # "absent"
                     /\ seat[row[r].owner] = row[r].seat
  /\ \A r, q \in Rows : row[r].owner = row[q].owner => r = q

(* What runs in a pane, or is known to, was started there.                  *)
PanesOK == \A t \in Terminals : inc[t] = 0 => ~running[t] /\ view[t] # "connected"

(* Seats and rows name processes that ran; no two rows own the same one,    *)
(* and none but its owner works there.                                      *)
SeatsOK ==
  /\ \A d \in Dispatches : seat[d] # None => seat[d][2] <= inc[seat[d][1]]
  /\ \A r \in Rows : row[r].seat # None
  /\ \A r, q \in Rows : row[r].own = "owned" /\ row[q].own = "owned" /\ row[r].seat = row[q].seat
                          => r = q
  /\ \A r \in Rows, d \in Dispatches :
       row[r].own = "owned" /\ seat[d] = row[r].seat /\ Live(d) => d = row[r].owner

(* A release is of an owned terminal of a settled worker; once committed,   *)
(* the output is archived; once over, the process is gone.                  *)
ReleasesOK ==
  \A r \in Rows :
    /\ row[r].rel = "released" <=> row[r].own = "released"
    /\ row[r].rel \in PendingStates => row[r].own = "owned" /\ Settled(row[r].owner)
    /\ row[r].rel = "releasing" => archive[row[r].owner] = <<r>>
    /\ row[r].rel = "released" => Gone(row[r].seat)

(* One completion per row; one that closes has committed.                   *)
JobsOK ==
  /\ \A j, k \in jobs : j.row = k.row => j = k
  /\ \A j \in jobs : j.pc = "close" => row[j.row].rel = "releasing"

Types == TypeOK /\ row \in [Dispatches -> {NoRow} \cup RowType]

TerminalInv == Types /\ PanesOK /\ OwnersOK /\ SeatsOK /\ ReleasesOK /\ JobsOK

-----------------------------------------------------------------------------
(* Types *)

LEMMA ARowIsTyped ==
  ASSUME Types
  PROVE  \A r \in Dispatches : r \in Rows <=> row[r] \in RowType
BY DEF Types, Rows, NoRow, RowType

(* The calls in flight keep their shape when rows are only added.           *)
LEMMA CallsTyped ==
  ASSUME Types, Rows \subseteq Rows', UNCHANGED callVars
  PROVE  /\ jobs' \subseteq [row : Rows', disp : Dispatches, mode : {"interactive", "recovery"},
                             pc : JobPcs]
         /\ stops' \in [Dispatches -> {"none", "inspect", "close"}]
         /\ probes' \subseteq Dispatches \X Rows'
         /\ pass'.todo \subseteq Rows' \X Dispatches
BY DEF Types, TypeOK, callVars

LEMMA StartInNewTypes ==
  ASSUME Types, NEW d \in Dispatches, NEW t \in Terminals, StartInNew(d, t)
  PROVE  Types' /\ Rows \subseteq Rows'
<1>1. NewRow(d, <<t, 1>>, "owned") \in RowType
  BY BoundsAssumption DEF NewRow, RowType, SeatType, ReleaseStates
<1>2. /\ row' = [row EXCEPT ![d] = NewRow(d, <<t, 1>>, "owned")]
      /\ row' \in [Dispatches -> {NoRow} \cup RowType]
  BY <1>1 DEF StartInNew, Types
<1>3. Rows \subseteq Rows'
  BY <1>1, <1>2 DEF Rows, Types, NoRow, RowType
<1>4. /\ worker' \in [Dispatches -> {"absent"} \cup LiveStates \cup SettledStates]
      /\ seat' \in [Dispatches -> SeatType]
      /\ inc' \in [Terminals -> 0..MaxIncarnation]
      /\ running' \in [Terminals -> BOOLEAN]
      /\ view' \in [Terminals -> {"unresolved", "connected", "disconnected"}]
  BY BoundsAssumption DEF StartInNew, Spawn, Types, TypeOK, SeatType, LiveStates
<1>5. UNCHANGED <<injected, archive, boots, callVars>>
  BY DEF StartInNew
<1>6. \A r \in Dispatches : row'[r] = NoRow \/ row'[r] \in RowType
  BY <1>2
<1> QED
  BY <1>2, <1>3, <1>4, <1>5, <1>6, CallsTyped DEF Types, TypeOK

LEMMA StartInExistingTypes ==
  ASSUME Types, PanesOK, NEW d \in Dispatches, NEW t \in Terminals, StartInExisting(d, t)
  PROVE  Types' /\ Rows \subseteq Rows'
<1> PICK s : s = Seat(t)
  OBVIOUS
<1>1. s \in SeatType
  BY DEF StartInExisting, PanesOK, Seat, SeatType, Types, TypeOK
<1>2. NewRow(d, s, "external") \in RowType /\ NewRow(d, s, "owned") \in RowType
  BY <1>1 DEF NewRow, RowType, ReleaseStates
<1>3. \/ row' = [row EXCEPT ![d] = NewRow(d, s, "external")]
      \/ \E r \in Transferable(s) :
           row' = [row EXCEPT ![r] = [NewRow(d, s, "owned") EXCEPT
                                        !.prior = row[r].prior \cup {row[r].owner}]]
  BY DEF StartInExisting
<1>4. row' \in [Dispatches -> {NoRow} \cup RowType] /\ Rows \subseteq Rows'
  <2>1. CASE row' = [row EXCEPT ![d] = NewRow(d, s, "external")]
    <3>1. row' \in [Dispatches -> {NoRow} \cup RowType]
      BY <1>2, <2>1 DEF Types
    <3> QED
      BY <1>2, <2>1, <3>1 DEF Rows, Types, NoRow, RowType
  <2>2. ASSUME NEW r \in Transferable(s),
               row' = [row EXCEPT ![r] = [NewRow(d, s, "owned") EXCEPT
                                            !.prior = row[r].prior \cup {row[r].owner}]]
        PROVE  row' \in [Dispatches -> {NoRow} \cup RowType] /\ Rows \subseteq Rows'
    <3>1. r \in Dispatches /\ row[r] \in RowType
      BY ARowIsTyped DEF Transferable, RowsAt, Held, Rows
    <3>2. row[r].prior \cup {row[r].owner} \in SUBSET Dispatches
      BY <3>1 DEF RowType
    <3>3. [NewRow(d, s, "owned") EXCEPT !.prior = row[r].prior \cup {row[r].owner}] \in RowType
      BY <1>2, <3>2 DEF RowType
    <3>4. row' \in [Dispatches -> {NoRow} \cup RowType]
      BY <2>2, <3>1, <3>3 DEF Types
    <3> QED
      BY <2>2, <3>3, <3>4 DEF Rows, Types, NoRow, RowType
  <2> QED
    BY <1>3, <2>1, <2>2
<1>5. /\ worker' \in [Dispatches -> {"absent"} \cup LiveStates \cup SettledStates]
      /\ seat' \in [Dispatches -> SeatType]
  BY <1>1 DEF StartInExisting, Types, TypeOK, LiveStates
<1>6. UNCHANGED <<injected, archive, inc, running, view, boots, callVars>>
  BY DEF StartInExisting, paneVars
<1>7. \A r \in Dispatches : row'[r] = NoRow \/ row'[r] \in RowType
  BY <1>4
<1> QED
  BY <1>4, <1>5, <1>6, <1>7, CallsTyped DEF Types, TypeOK

(* Steps that change no row. *)
LEMMA WorkerStepTypes ==
  ASSUME Types, NEW d \in Dispatches,
         \/ FinishStart(d) \/ Report(d) \/ Abandon(d)
         \/ BeginStop(d) \/ StopInspected(d) \/ StopReturns(d)
  PROVE  Types' /\ row' = row
<1>1. UNCHANGED <<seat, injected, row, archive, inc, running, view, boots, jobs, probes, pass>>
  BY DEF FinishStart, Report, Abandon, BeginStop, StopInspected, StopReturns, paneVars, callVars
<1>2. /\ worker' \in [Dispatches -> {"absent"} \cup LiveStates \cup SettledStates]
      /\ stops' \in [Dispatches -> {"none", "inspect", "close"}]
  BY DEF FinishStart, Report, Abandon, BeginStop, StopInspected, StopReturns, StopUnknown, callVars,
     Types, TypeOK, LiveStates, SettledStates
<1> QED
  BY <1>1, <1>2 DEF Types, TypeOK, Rows

LEMMA PaneStepTypes ==
  ASSUME Types, NEW t \in Terminals,
         \/ Inject(t) \/ EndInjected(t) \/ UserSpawn(t) \/ ProcessEnds(t) \/ ExitSeen(t)
         \/ LoseContact(t)
  PROVE  Types' /\ row' = row
<1>1. UNCHANGED <<seat, row, archive, boots, jobs, stops, probes, pass>>
  BY DEF Inject, EndInjected, UserSpawn, ProcessEnds, ExitSeen, LoseContact, dbVars, callVars
<1>2. worker' \in [Dispatches -> {"absent"} \cup LiveStates \cup SettledStates]
  <2>1. CASE ExitSeen(t)
    BY <2>1 DEF ExitSeen, Types, TypeOK, SettledStates
  <2>2. CASE ~ExitSeen(t)
    BY <2>2 DEF Inject, EndInjected, UserSpawn, ProcessEnds, LoseContact, dbVars, Types, TypeOK
  <2> QED
    BY <2>1, <2>2
<1>3. injected' \subseteq Terminals
  BY DEF Inject, EndInjected, UserSpawn, ProcessEnds, ExitSeen, LoseContact, dbVars, Types, TypeOK
<1>4. /\ inc' \in [Terminals -> 0..MaxIncarnation]
      /\ running' \in [Terminals -> BOOLEAN]
      /\ view' \in [Terminals -> {"unresolved", "connected", "disconnected"}]
  <2>1. CASE UserSpawn(t)
    BY <2>1, BoundsAssumption DEF UserSpawn, Spawn, Types, TypeOK
  <2>2. CASE ~UserSpawn(t)
    BY <2>2 DEF Inject, EndInjected, ProcessEnds, ExitSeen, LoseContact, paneVars, Types, TypeOK
  <2> QED
    BY <2>1, <2>2
<1> QED
  BY <1>1, <1>2, <1>3, <1>4 DEF Types, TypeOK, Rows

LEMMA RestartTypes ==
  ASSUME Types, Restart
  PROVE  Types' /\ row' = row
<1>1. UNCHANGED <<worker, seat, injected, row, archive, inc, running>>
  BY DEF Restart, dbVars
<1>2. boots' \in 1..MaxBoots
  BY BoundsAssumption DEF Restart, Types, TypeOK
<1>3. /\ jobs' = {} /\ probes' = {} /\ pass'.todo = {}
      /\ stops' \in [Dispatches -> {"none", "inspect", "close"}]
      /\ view' \in [Terminals -> {"unresolved", "connected", "disconnected"}]
  BY DEF Restart, NoPass
<1> QED
  BY <1>1, <1>2, <1>3 DEF Types, TypeOK

-----------------------------------------------------------------------------
(* Steps that change no row *)

WorkerMoves ==
  \A d \in Dispatches : /\ worker'[d] = "absent" <=> worker[d] = "absent"
                        /\ Settled(d) => Settled(d)'
                        /\ Live(d)' => Live(d)

(* What ended does not come back: a new process is a new incarnation.       *)
PanesMove ==
  /\ PanesOK'
  /\ \A t \in Terminals : /\ inc[t] <= inc'[t]
                          /\ ~running[t] => ~running'[t] \/ inc[t] < inc'[t]

LEMMA SeatOfRow ==
  ASSUME Types, OwnersOK, SeatsOK, NEW r \in Rows
  PROVE  /\ row[r].seat \in Terminals \X (1..MaxIncarnation)
         /\ row[r].seat[1] \in Terminals /\ row[r].seat[2] \in 1..MaxIncarnation
         /\ row[r].seat[2] <= inc[row[r].seat[1]]
         /\ row[r].owner \in Dispatches /\ r \in Dispatches /\ row[r] \in RowType
<1>1. row[r] \in RowType /\ r \in Dispatches
  BY ARowIsTyped DEF Rows
<1>2. row[r].seat \in SeatType /\ row[r].seat # None /\ row[r].owner \in Dispatches
  BY <1>1 DEF SeatsOK, RowType
<1>3. seat[row[r].owner] = row[r].seat
  BY DEF OwnersOK
<1> QED
  BY <1>1, <1>2, <1>3 DEF SeatType, SeatsOK

LEMMA SeatBoundStays ==
  ASSUME Types, SeatsOK, PanesMove, Types', NEW d \in Dispatches, seat[d] # None
  PROVE  /\ seat[d][1] \in Terminals /\ seat[d][2] <= inc'[seat[d][1]]
         /\ inc'[seat[d][1]] # 0
<1> PICK t \in Terminals, n \in 1..MaxIncarnation : t = seat[d][1] /\ n = seat[d][2]
  BY DEF Types, TypeOK, SeatType
<1>1. inc[t] \in Nat /\ inc'[t] \in Nat /\ n \in Nat \ {0} /\ n <= inc[t] /\ inc[t] <= inc'[t]
  BY DEF PanesMove, Types, TypeOK, SeatsOK
<1> QED
  BY <1>1

LEMMA GoneStays ==
  ASSUME Types, OwnersOK, SeatsOK, PanesMove, Types', NEW r \in Rows, Gone(row[r].seat)
  PROVE  ~running'[row[r].seat[1]] \/ inc'[row[r].seat[1]] # row[r].seat[2]
<1> PICK t \in Terminals, n \in 1..MaxIncarnation : t = row[r].seat[1] /\ n = row[r].seat[2]
  BY SeatOfRow
<1>1. inc[t] \in Nat /\ inc'[t] \in Nat /\ n \in Nat /\ n <= inc[t] /\ inc[t] <= inc'[t]
  BY SeatOfRow DEF PanesMove, Types, TypeOK
<1> QED
  BY <1>1 DEF PanesMove, Gone

LEMMA RowsStay ==
  ASSUME Types, OwnersOK, SeatsOK, ReleasesOK, Types', UNCHANGED <<seat, row, archive>>,
         WorkerMoves, PanesMove
  PROVE  OwnersOK' /\ SeatsOK' /\ ReleasesOK'
<1>1. Rows' = Rows
  BY DEF Rows
<1>2. \A r \in Rows : r \in Dispatches /\ row[r].owner \in Dispatches
  BY SeatOfRow
<1>3. OwnersOK'
  BY <1>1, <1>2 DEF OwnersOK, WorkerMoves
<1>4. SeatsOK'
  <2>1. /\ \A d \in Dispatches : seat'[d] # None => seat'[d][2] <= inc'[seat'[d][1]]
        /\ \A r \in Rows' : row'[r].seat # None
    BY <1>1, SeatBoundStays DEF SeatsOK
  <2>2. \A r \in Rows', d \in Dispatches :
          row'[r].own = "owned" /\ seat'[d] = row'[r].seat /\ Live(d)' => d = row'[r].owner
    BY <1>1 DEF SeatsOK, WorkerMoves
  <2> QED
    BY <1>1, <2>1, <2>2 DEF SeatsOK
<1>5. ReleasesOK'
  <2> SUFFICES ASSUME NEW r \in Rows
               PROVE  /\ row[r].rel = "released" <=> row[r].own = "released"
                      /\ row[r].rel \in PendingStates => row[r].own = "owned" /\ Settled(row[r].owner)'
                      /\ row[r].rel = "releasing" => archive[row[r].owner] = <<r>>
                      /\ row[r].rel = "released" => Gone(row[r].seat)'
    BY <1>1 DEF ReleasesOK, Settled
  <2>1. row[r].rel \in PendingStates => Settled(row[r].owner)'
    BY <1>2 DEF ReleasesOK, WorkerMoves, Settled
  <2>2. row[r].rel = "released" => Gone(row[r].seat)'
    BY GoneStays DEF ReleasesOK, Gone
  <2> QED
    BY <2>1, <2>2 DEF ReleasesOK
<1> QED
  BY <1>3, <1>4, <1>5

LEMMA JobsStay ==
  ASSUME JobsOK, row' = row, jobs' \subseteq jobs
  PROVE  JobsOK'
BY DEF JobsOK

(* A completion that begins joins the one in flight.                        *)
LEMMA StartJobOK ==
  ASSUME JobsOK, NEW r, NEW d, NEW mode, StartJob(r, d, mode),
         \A j \in jobs : j.pc = "close" => row'[j.row].rel = "releasing"
  PROVE  JobsOK'
<1>1. Job(r, d, mode, "inspect").row = r /\ Job(r, d, mode, "inspect").pc = "inspect"
  BY DEF Job
<1>2. JobsOn(r) = {} => \A j \in jobs : j.row # r
  BY DEF JobsOn
<1> QED
  BY <1>1, <1>2 DEF JobsOK, StartJob

LEMMA WorkerStepInv ==
  ASSUME TerminalInv, NEW d \in Dispatches,
         \/ FinishStart(d) \/ Report(d) \/ Abandon(d)
         \/ BeginStop(d) \/ StopInspected(d) \/ StopReturns(d)
  PROVE  TerminalInv'
<1>1. Types' /\ row' = row /\ Types /\ PanesOK /\ OwnersOK /\ SeatsOK /\ ReleasesOK /\ JobsOK
  BY WorkerStepTypes DEF TerminalInv
<1>2. WorkerMoves
  BY <1>1 DEF WorkerMoves, Settled, Live, LiveStates, SettledStates, FinishStart, Report, Abandon,
     BeginStop, StopInspected, StopReturns, StopUnknown, callVars, Types, TypeOK
<1>3. UNCHANGED <<seat, archive, inc, running, view, jobs>>
  BY DEF FinishStart, Report, Abandon, BeginStop, StopInspected, StopReturns, paneVars, callVars
<1>4. PanesMove
  BY <1>1, <1>3 DEF PanesMove, PanesOK, Types, TypeOK
<1> QED
  BY <1>1, <1>2, <1>3, <1>4, RowsStay, JobsStay DEF TerminalInv, PanesMove

LEMMA PaneStepInv ==
  ASSUME TerminalInv, NEW t \in Terminals,
         \/ Inject(t) \/ EndInjected(t) \/ UserSpawn(t) \/ ProcessEnds(t) \/ ExitSeen(t)
         \/ LoseContact(t)
  PROVE  TerminalInv'
<1>1. Types' /\ row' = row /\ Types /\ PanesOK /\ OwnersOK /\ SeatsOK /\ ReleasesOK /\ JobsOK
  BY PaneStepTypes DEF TerminalInv
<1>2. UNCHANGED <<seat, archive, jobs>>
  BY DEF Inject, EndInjected, UserSpawn, ProcessEnds, ExitSeen, LoseContact, dbVars, callVars
<1>3. WorkerMoves
  <2>1. CASE ExitSeen(t)
    BY <1>1, <2>1 DEF ExitSeen, WorkerMoves, Settled, Live, LiveStates, SettledStates, Types, TypeOK
  <2>2. CASE ~ExitSeen(t)
    <3>1. worker' = worker
      BY <2>2 DEF Inject, EndInjected, UserSpawn, ProcessEnds, LoseContact, dbVars
    <3> QED
      BY <3>1 DEF WorkerMoves, Settled, Live
  <2> QED
    BY <2>1, <2>2
<1>4. PanesMove
  <2>1. CASE UserSpawn(t)
    BY <1>1, <2>1 DEF UserSpawn, Spawn, PanesMove, PanesOK, Types, TypeOK
  <2>2. CASE ~UserSpawn(t)
    BY <1>1, <2>2 DEF Inject, EndInjected, ProcessEnds, ExitSeen, LoseContact, paneVars,
       PanesMove, PanesOK, Types, TypeOK
  <2> QED
    BY <2>1, <2>2
<1> QED
  BY <1>1, <1>2, <1>3, <1>4, RowsStay, JobsStay DEF TerminalInv, PanesMove

LEMMA RestartInv ==
  ASSUME TerminalInv, Restart
  PROVE  TerminalInv'
<1>1. Types' /\ row' = row /\ Types /\ PanesOK /\ OwnersOK /\ SeatsOK /\ ReleasesOK /\ JobsOK
  BY RestartTypes DEF TerminalInv
<1>2. /\ UNCHANGED <<worker, seat, archive, inc, running>> /\ jobs' = {}
      /\ view' = [t \in Terminals |-> "unresolved"]
  BY DEF Restart, dbVars
<1>3. WorkerMoves
  BY <1>2 DEF WorkerMoves, Settled, Live
<1>4. PanesMove
  BY <1>1, <1>2 DEF PanesMove, PanesOK, Types, TypeOK
<1> QED
  BY <1>1, <1>2, <1>3, <1>4, RowsStay, JobsStay DEF TerminalInv, PanesMove

(* A recovery pass starts the completion of a row of the backlog.           *)
LEMMA PassTypes ==
  ASSUME Types, NEW todo \in SUBSET (Rows \X Dispatches), NEW rerun, PassFrom(todo, rerun)
  PROVE  /\ pass'.todo \subseteq Rows \X Dispatches
         /\ jobs' \subseteq [row : Rows, disp : Dispatches, mode : {"interactive", "recovery"},
                             pc : JobPcs]
         /\ \E r, d : StartJob(r, d, "recovery")
<1>1. PICK p \in todo : /\ pass' = [todo |-> todo \ {p}, at |-> <<p[1]>>, rerun |-> rerun]
                        /\ StartJob(p[1], p[2], "recovery")
  BY DEF PassFrom
<1>2. p[1] \in Rows /\ p[2] \in Dispatches
  OBVIOUS
<1>3. pass'.todo = todo \ {p}
  BY <1>1
<1>4. Job(p[1], p[2], "recovery", "inspect")
        \in [row : Rows, disp : Dispatches, mode : {"interactive", "recovery"}, pc : JobPcs]
  BY <1>2 DEF Job, JobPcs
<1>5. jobs' \subseteq jobs \cup {Job(p[1], p[2], "recovery", "inspect")}
  BY <1>1 DEF StartJob
<1>6. jobs' \subseteq [row : Rows, disp : Dispatches, mode : {"interactive", "recovery"}, pc : JobPcs]
  BY <1>4, <1>5 DEF Types, TypeOK
<1>7. pass'.todo \subseteq Rows \X Dispatches
  BY <1>3
<1> QED
  BY <1>1, <1>6, <1>7

LEMMA BacklogTyped ==
  ASSUME Types
  PROVE  Backlog \in SUBSET (Rows \X Dispatches)
BY ARowIsTyped DEF Backlog, Rows, RowType

LEMMA RunPassOK ==
  ASSUME Types, JobsOK, row' = row, NEW todo \in SUBSET (Rows \X Dispatches), NEW rerun,
         RunPass(todo, rerun)
  PROVE  /\ pass'.todo \subseteq Rows' \X Dispatches
         /\ jobs' \subseteq [row : Rows', disp : Dispatches, mode : {"interactive", "recovery"},
                             pc : JobPcs]
         /\ JobsOK'
<1>1. Rows' = Rows
  BY DEF Rows
<1>2. ASSUME NEW some \in SUBSET (Rows \X Dispatches), NEW again, PassFrom(some, again)
      PROVE  /\ pass'.todo \subseteq Rows \X Dispatches
             /\ jobs' \subseteq [row : Rows, disp : Dispatches, mode : {"interactive", "recovery"},
                                 pc : JobPcs]
             /\ JobsOK'
  <2>1. \A j \in jobs : j.pc = "close" => row'[j.row].rel = "releasing"
    BY DEF JobsOK
  <2> QED
    BY <1>2, <2>1, PassTypes, StartJobOK
<1>3. CASE todo = {} /\ ~(rerun /\ Backlog # {})
  <2>1. pass' = NoPass /\ jobs' = jobs
    BY <1>3 DEF RunPass
  <2> QED
    BY <1>1, <2>1, JobsStay DEF NoPass, Types, TypeOK
<1> QED
  BY <1>1, <1>2, <1>3, BacklogTyped DEF RunPass

LEMMA PassResumesInv ==
  ASSUME TerminalInv, PassResumes
  PROVE  TerminalInv'
<1>1. Types /\ PanesOK /\ OwnersOK /\ SeatsOK /\ ReleasesOK /\ JobsOK
  BY DEF TerminalInv
<1>2. UNCHANGED <<worker, seat, injected, row, archive, inc, running, view, stops, probes, boots>>
  BY DEF PassResumes, dbVars, paneVars
<1>3. /\ pass'.todo \subseteq Rows' \X Dispatches
      /\ jobs' \subseteq [row : Rows', disp : Dispatches, mode : {"interactive", "recovery"},
                          pc : JobPcs]
      /\ JobsOK'
  BY <1>1, <1>2, RunPassOK DEF PassResumes, Types, TypeOK
<1>4. Types'
  BY <1>1, <1>2, <1>3 DEF Types, TypeOK, Rows
<1>5. WorkerMoves /\ PanesMove
  BY <1>1, <1>2 DEF WorkerMoves, Settled, Live, PanesMove, PanesOK, Types, TypeOK
<1> QED
  BY <1>1, <1>2, <1>3, <1>4, <1>5, RowsStay DEF TerminalInv, PanesMove

LEMMA DiscoverInv ==
  ASSUME TerminalInv, NEW ts, NEW missing, Discover(ts, missing)
  PROVE  TerminalInv'
<1>1. Types /\ PanesOK /\ OwnersOK /\ SeatsOK /\ ReleasesOK /\ JobsOK
  BY DEF TerminalInv
<1>2. UNCHANGED <<seat, injected, row, archive, inc, running, stops, probes, boots>>
  BY DEF Discover
<1>3. /\ pass'.todo \subseteq Rows' \X Dispatches
      /\ jobs' \subseteq [row : Rows', disp : Dispatches, mode : {"interactive", "recovery"},
                          pc : JobPcs]
      /\ JobsOK'
  <2>1. CASE pass.at # None
    <3>1. pass' = [pass EXCEPT !.rerun = TRUE] /\ jobs' = jobs
      BY <2>1 DEF Discover, Reconcile
    <3>2. pass'.todo = pass.todo
      BY <3>1
    <3> QED
      BY <1>1, <1>2, <3>1, <3>2, JobsStay DEF Types, TypeOK, Rows
  <2>2. CASE pass.at = None
    BY <1>1, <1>2, <2>2, RunPassOK, BacklogTyped DEF Discover, Reconcile
  <2> QED
    BY <2>1, <2>2
<1>4. /\ worker' \in [Dispatches -> {"absent"} \cup LiveStates \cup SettledStates]
      /\ view' \in [Terminals -> {"unresolved", "connected", "disconnected"}]
  BY <1>1 DEF Discover, Types, TypeOK, SettledStates
<1>5. Types'
  BY <1>1, <1>2, <1>3, <1>4 DEF Types, TypeOK, Rows
<1>6. WorkerMoves
  BY <1>1 DEF Discover, WorkerMoves, Settled, Live, LiveStates, SettledStates
<1>7. PanesMove
  BY <1>1, <1>2 DEF Discover, PanesMove, PanesOK, Types, TypeOK
<1> QED
  BY <1>1, <1>2, <1>3, <1>5, <1>6, <1>7, RowsStay DEF TerminalInv, PanesMove

-----------------------------------------------------------------------------
(* Starts *)

(* A new row, at a seat no owned row has, for a dispatch that was absent.   *)
LEMMA NewRowFields ==
  ASSUME NEW d, NEW s, NEW own
  PROVE  /\ NewRow(d, s, own).owner = d /\ NewRow(d, s, own).seat = s
         /\ NewRow(d, s, own).own = own /\ NewRow(d, s, own).rel = "not_requested"
BY DEF NewRow

LEMMA StartInNewInv ==
  ASSUME TerminalInv, NEW d \in Dispatches, NEW t \in Terminals, StartInNew(d, t)
  PROVE  TerminalInv'
<1>1. Types /\ PanesOK /\ OwnersOK /\ SeatsOK /\ ReleasesOK /\ JobsOK /\ Types' /\ Rows \subseteq Rows'
  BY StartInNewTypes DEF TerminalInv
<1> PICK new : new = NewRow(d, <<t, 1>>, "owned")
  OBVIOUS
<1>2. /\ worker[d] = "absent" /\ inc[t] = 0
      /\ inc' = [inc EXCEPT ![t] = 1] /\ running' = [running EXCEPT ![t] = TRUE]
      /\ view' = [view EXCEPT ![t] = "connected"]
      /\ worker' = [worker EXCEPT ![d] = "starting"]
      /\ seat' = [seat EXCEPT ![d] = <<t, 1>>]
      /\ row' = [row EXCEPT ![d] = new]
      /\ UNCHANGED <<archive, jobs>>
  BY <1>1 DEF StartInNew, Spawn, callVars, Types, TypeOK
<1>3. new.owner = d /\ new.seat = <<t, 1>> /\ new.own = "owned" /\ new.rel = "not_requested"
  BY NewRowFields
<1>4. d \notin Rows /\ Rows' = Rows \cup {d} /\ row'[d] = new /\ \A r \in Rows : row'[r] = row[r]
  <2>1. d \notin Rows
    BY <1>1, <1>2 DEF OwnersOK
  <2>2. \A r \in Dispatches : row'[r] = IF r = d THEN new ELSE row[r]
    BY <1>1, <1>2 DEF Types
  <2>3. d \in Rows'
    BY <1>3, <2>2 DEF Rows, NoRow
  <2> QED
    BY <1>1, <2>1, <2>2, <2>3 DEF Rows
<1>5. PanesMove
  BY <1>1, <1>2 DEF PanesMove, PanesOK, Types, TypeOK
<1>6. <<t, 1>> # None /\ <<t, 1>>[1] = t /\ <<t, 1>>[2] = 1 /\ inc'[t] = 1
  BY <1>1, <1>2 DEF None, Types, TypeOK
<1>7. \A e \in Dispatches : seat[e] # None => seat[e][1] # t
  <2> SUFFICES ASSUME NEW e \in Dispatches, seat[e] # None, seat[e][1] = t PROVE FALSE
    OBVIOUS
  <2>1. seat[e][2] \in 1..MaxIncarnation /\ seat[e][2] <= inc[t]
    BY <1>1 DEF SeatsOK, Types, TypeOK, SeatType
  <2> QED
    BY <1>2, <2>1
<1>8. \A r \in Rows : /\ row[r].owner \in Dispatches /\ r \in Dispatches /\ row[r].owner # d
                      /\ worker[row[r].owner] # "absent"
                      /\ row[r].seat # None /\ seat[row[r].owner] = row[r].seat
                      /\ row[r].seat[1] # t
  BY <1>1, <1>2, <1>7, SeatOfRow DEF OwnersOK, SeatsOK
<1>9. \A e \in Dispatches \ {d} : worker'[e] = worker[e] /\ seat'[e] = seat[e]
  BY <1>1, <1>2 DEF Types, TypeOK
<1>10. worker'[d] = "starting" /\ seat'[d] = <<t, 1>>
  BY <1>1, <1>2 DEF Types, TypeOK
<1>11. OwnersOK'
  <2>1. \A r \in Rows' : /\ worker'[r] # "absent" /\ worker'[row'[r].owner] # "absent"
                         /\ seat'[row'[r].owner] = row'[r].seat
    BY <1>1, <1>2, <1>3, <1>4, <1>8, <1>9, <1>10 DEF OwnersOK
  <2>2. \A r, q \in Rows' : row'[r].owner = row'[q].owner => r = q
    BY <1>1, <1>3, <1>4, <1>8 DEF OwnersOK
  <2> QED
    BY <2>1, <2>2 DEF OwnersOK
<1>12. SeatsOK'
  <2>1. \A r \in Rows' : row'[r].seat # None
    BY <1>3, <1>4, <1>6, <1>8
  <2>2. \A r, q \in Rows' : row'[r].own = "owned" /\ row'[q].own = "owned" /\ row'[r].seat = row'[q].seat
                              => r = q
    BY <1>1, <1>3, <1>4, <1>6, <1>8 DEF SeatsOK
  <2>3. \A r \in Rows', e \in Dispatches :
          row'[r].own = "owned" /\ seat'[e] = row'[r].seat /\ Live(e)' => e = row'[r].owner
    <3> SUFFICES ASSUME NEW r \in Rows', NEW e \in Dispatches, row'[r].own = "owned",
                        seat'[e] = row'[r].seat, Live(e)'
                 PROVE  e = row'[r].owner
      OBVIOUS
    <3>1. CASE e = d
      BY <1>3, <1>4, <1>6, <1>8, <1>10, <3>1
    <3>2. CASE e # d /\ r \in Rows
      <4>1. seat[e] = row[r].seat /\ row[r].own = "owned" /\ Live(e)
        BY <1>4, <1>9, <3>2 DEF Live
      <4> QED
        BY <1>1, <1>4, <3>2, <4>1 DEF SeatsOK
    <3>3. CASE e # d /\ r = d
      BY <1>3, <1>4, <1>6, <1>7, <1>9, <3>3
    <3> QED
      BY <1>4, <3>1, <3>2, <3>3
  <2>4. \A e \in Dispatches : seat'[e] # None => seat'[e][2] <= inc'[seat'[e][1]]
    <3> SUFFICES ASSUME NEW e \in Dispatches, seat'[e] # None PROVE seat'[e][2] <= inc'[seat'[e][1]]
      OBVIOUS
    <3>1. CASE e = d
      BY <1>6, <1>10, <3>1
    <3>2. CASE e # d
      BY <1>1, <1>5, <1>9, <3>2, SeatBoundStays
    <3> QED
      BY <3>1, <3>2
  <2> QED
    BY <2>1, <2>2, <2>3, <2>4 DEF SeatsOK
<1>13. ReleasesOK'
  <2> SUFFICES ASSUME NEW r \in Rows'
               PROVE  /\ row'[r].rel = "released" <=> row'[r].own = "released"
                      /\ row'[r].rel \in PendingStates => row'[r].own = "owned" /\ Settled(row[r].owner)'
                      /\ row'[r].rel = "releasing" => archive'[row'[r].owner] = <<r>>
                      /\ row'[r].rel = "released" => Gone(row[r].seat)'
    BY DEF ReleasesOK, Settled
  <2>1. CASE r = d
    BY <1>3, <1>4, <2>1 DEF PendingStates
  <2>2. CASE r \in Rows
    <3>1. row'[r] = row[r] /\ archive' = archive /\ worker'[row[r].owner] = worker[row[r].owner]
      BY <1>2, <1>4, <1>8, <1>9, <2>2
    <3>2. row[r].rel \in PendingStates => Settled(row[r].owner)'
      BY <1>1, <2>2, <3>1 DEF ReleasesOK, Settled
    <3>3. row[r].rel = "released" => Gone(row[r].seat)'
      BY <1>1, <1>5, <2>2, <3>1, GoneStays DEF ReleasesOK, Gone
    <3> QED
      BY <1>1, <2>2, <3>1, <3>2, <3>3 DEF ReleasesOK
  <2> QED
    BY <1>4, <2>1, <2>2
<1>14. JobsOK'
  BY <1>1, <1>2, <1>4 DEF JobsOK, Types, TypeOK
<1> QED
  BY <1>1, <1>5, <1>11, <1>12, <1>13, <1>14 DEF TerminalInv, PanesMove

(* An owned row of the seat a new worker reuses can be transferred to it.   *)
LEMMA OwnedIsTransferable ==
  ASSUME TerminalInv, NEW t \in Terminals, NEW r \in Rows, ~Occupied(t), ~InRelease(Seat(t)),
         row[r].own = "owned", row[r].seat = Seat(t)
  PROVE  r \in Transferable(Seat(t))
<1>1. Types /\ OwnersOK /\ SeatsOK /\ ReleasesOK
  BY DEF TerminalInv
<1>2. r \in RowsAt(Seat(t))
  BY DEF RowsAt, Held
<1>3. row[r].rel \in {"not_requested", "retained"}
  BY <1>1, <1>2, SeatOfRow DEF InRelease, ReleasesOK, RowType, ReleaseStates, PendingStates
<1>4. Settled(row[r].owner)
  <2>1. /\ row[r].owner \in Dispatches /\ worker[row[r].owner] # "absent"
        /\ seat[row[r].owner] = Seat(t) /\ Seat(t) # None
    BY <1>1, SeatOfRow DEF OwnersOK, SeatsOK
  <2>2. Seat(t)[1] = t
    BY DEF Seat
  <2>3. ~Live(row[r].owner)
    BY <2>1, <2>2 DEF Occupied
  <2> QED
    BY <1>1, <2>1, <2>3 DEF Live, Settled, Types, TypeOK
<1> QED
  BY <1>2, <1>3, <1>4 DEF Transferable

LEMMA StartInExistingInv ==
  ASSUME TerminalInv, NEW d \in Dispatches, NEW t \in Terminals, StartInExisting(d, t)
  PROVE  TerminalInv'
<1>1. Types /\ PanesOK /\ OwnersOK /\ SeatsOK /\ ReleasesOK /\ JobsOK /\ Types' /\ Rows \subseteq Rows'
  BY StartInExistingTypes DEF TerminalInv
<1> PICK s : s = Seat(t)
  OBVIOUS
<1>2. /\ worker[d] = "absent" /\ view[t] = "connected" /\ ~Occupied(t) /\ ~InRelease(Seat(t))
      /\ worker' = [worker EXCEPT ![d] = "starting"]
      /\ seat' = [seat EXCEPT ![d] = s]
      /\ UNCHANGED <<archive, jobs, inc, running, view>>
  BY DEF StartInExisting, paneVars, callVars
<1>3. /\ \A e \in Dispatches \ {d} : worker'[e] = worker[e] /\ seat'[e] = seat[e]
      /\ worker'[d] = "starting" /\ seat'[d] = s
  BY <1>1, <1>2 DEF Types, TypeOK
<1>4. PanesMove
  BY <1>1, <1>2 DEF PanesMove, PanesOK, Types, TypeOK
<1>5. s \in Terminals \X (1..MaxIncarnation) /\ s[1] = t /\ s[2] = inc[t] /\ s # None
  BY <1>1, <1>2 DEF Seat, PanesOK, Types, TypeOK, None
<1>6. \A r \in Rows : /\ row[r].owner \in Dispatches /\ r \in Dispatches /\ row[r].owner # d /\ r # d
                      /\ worker[row[r].owner] # "absent"
                      /\ row[r].seat # None /\ seat[row[r].owner] = row[r].seat
  BY <1>1, <1>2, SeatOfRow DEF OwnersOK, SeatsOK
<1>7. \A e \in Dispatches : seat[e] = s => ~Live(e)
  BY <1>2, <1>5 DEF Occupied
<1>8. \A e \in Dispatches : seat'[e] # None => seat'[e][2] <= inc'[seat'[e][1]]
  <2> SUFFICES ASSUME NEW e \in Dispatches, seat'[e] # None PROVE seat'[e][2] <= inc'[seat'[e][1]]
    OBVIOUS
  <2>1. CASE e = d
    BY <1>1, <1>2, <1>3, <1>5, <2>1 DEF Types, TypeOK
  <2>2. CASE e # d
    BY <1>1, <1>3, <1>4, <2>2, SeatBoundStays
  <2> QED
    BY <2>1, <2>2
<1>9. \A r \in Rows :
        /\ row[r].rel \in PendingStates => worker'[row[r].owner] \in SettledStates
        /\ row[r].rel = "released" => \/ ~running'[row[r].seat[1]]
                                      \/ inc'[row[r].seat[1]] # row[r].seat[2]
  BY <1>1, <1>2, <1>3, <1>4, <1>6, GoneStays DEF ReleasesOK, Settled
<1>10. CASE Transferable(s) = {} /\ row' = [row EXCEPT ![d] = NewRow(d, s, "external")]
  <2>1. /\ d \notin Rows /\ Rows' = Rows \cup {d} /\ row'[d] = NewRow(d, s, "external")
        /\ \A r \in Rows : row'[r] = row[r]
    <3>1. \A r \in Dispatches : row'[r] = IF r = d THEN NewRow(d, s, "external") ELSE row[r]
      BY <1>1, <1>10 DEF Types
    <3>2. d \in Rows'
      BY <3>1, NewRowFields DEF Rows, NoRow
    <3> QED
      BY <1>1, <1>6, <3>1, <3>2 DEF Rows
  <2>2. /\ row'[d].owner = d /\ row'[d].seat = s /\ row'[d].own = "external"
        /\ row'[d].rel = "not_requested"
    BY <2>1, NewRowFields
  <2>3. OwnersOK'
    <3>1. \A r \in Rows' : /\ worker'[r] # "absent" /\ worker'[row'[r].owner] # "absent"
                           /\ seat'[row'[r].owner] = row'[r].seat
      BY <1>1, <1>3, <1>6, <2>1, <2>2 DEF OwnersOK
    <3>2. \A r, q \in Rows' : row'[r].owner = row'[q].owner => r = q
      BY <1>1, <1>6, <2>1, <2>2 DEF OwnersOK
    <3> QED
      BY <3>1, <3>2 DEF OwnersOK
  <2>4. SeatsOK'
    <3>1. \A r \in Rows' : row'[r].seat # None
      BY <1>5, <1>6, <2>1, <2>2
    <3>2. \A r, q \in Rows' : row'[r].own = "owned" /\ row'[q].own = "owned" /\ row'[r].seat = row'[q].seat
                                => r = q
      BY <1>1, <2>1, <2>2 DEF SeatsOK
    <3>3. \A r \in Rows', e \in Dispatches :
            row'[r].own = "owned" /\ seat'[e] = row'[r].seat /\ Live(e)' => e = row'[r].owner
      <4> SUFFICES ASSUME NEW r \in Rows', NEW e \in Dispatches, row'[r].own = "owned",
                          seat'[e] = row'[r].seat, Live(e)'
                   PROVE  e = row'[r].owner
        OBVIOUS
      <4>1. r \in Rows /\ row'[r] = row[r]
        BY <2>1, <2>2
      <4>2. CASE e = d
        BY <1>2, <1>3, <1>10, <4>1, <4>2, OwnedIsTransferable
      <4>3. CASE e # d
        BY <1>1, <1>3, <4>1, <4>3 DEF SeatsOK, Live
      <4> QED
        BY <4>2, <4>3
    <3> QED
      BY <1>8, <3>1, <3>2, <3>3 DEF SeatsOK
  <2>5. ReleasesOK'
    BY <1>1, <1>2, <1>6, <1>9, <2>1, <2>2 DEF ReleasesOK, Settled, Gone, PendingStates
  <2>6. JobsOK'
    BY <1>1, <1>2, <2>1 DEF JobsOK, Types, TypeOK
  <2> QED
    BY <1>1, <1>4, <2>3, <2>4, <2>5, <2>6 DEF TerminalInv, PanesMove
<1>11. ASSUME NEW x \in Transferable(s),
              row' = [row EXCEPT ![x] = [NewRow(d, s, "owned") EXCEPT
                                           !.prior = row[x].prior \cup {row[x].owner}]]
       PROVE  TerminalInv'
  <2>1. x \in Rows /\ row[x].own = "owned" /\ row[x].seat = s /\ row[x].rel \in {"not_requested", "retained"}
    BY DEF Transferable, RowsAt, Held
  <2>2. PICK moved : moved = [NewRow(d, s, "owned") EXCEPT !.prior = row[x].prior \cup {row[x].owner}]
    OBVIOUS
  <2>3. /\ Rows' = Rows /\ row'[x] = moved
        /\ \A r \in Rows : r # x => row'[r] = row[r]
    <3>1. \A r \in Dispatches : row'[r] = IF r = x THEN moved ELSE row[r]
      BY <1>1, <1>11, <2>2 DEF Types
    <3>2. x \in Dispatches
      BY <1>6, <2>1
    <3>3. Rows' \subseteq Rows
      BY <2>1, <3>1 DEF Rows
    <3> QED
      BY <1>1, <1>6, <3>1, <3>2, <3>3
  <2>4. moved.owner = d /\ moved.seat = s /\ moved.own = "owned" /\ moved.rel = "not_requested"
    BY <2>2 DEF NewRow
  <2>5. OwnersOK'
    <3>1. \A r \in Rows' : /\ worker'[r] # "absent" /\ worker'[row'[r].owner] # "absent"
                           /\ seat'[row'[r].owner] = row'[r].seat
      BY <1>1, <1>3, <1>6, <2>1, <2>3, <2>4 DEF OwnersOK
    <3>2. \A r, q \in Rows' : row'[r].owner = row'[q].owner => r = q
      BY <1>1, <1>6, <2>1, <2>3, <2>4 DEF OwnersOK
    <3> QED
      BY <3>1, <3>2 DEF OwnersOK
  <2>6. SeatsOK'
    <3>1. \A r \in Rows' : row'[r].seat # None
      BY <1>5, <1>6, <2>1, <2>3, <2>4
    <3>2. \A r, q \in Rows' : row'[r].own = "owned" /\ row'[q].own = "owned" /\ row'[r].seat = row'[q].seat
                                => r = q
      BY <1>1, <2>1, <2>3, <2>4 DEF SeatsOK
    <3>3. \A r \in Rows', e \in Dispatches :
            row'[r].own = "owned" /\ seat'[e] = row'[r].seat /\ Live(e)' => e = row'[r].owner
      <4> SUFFICES ASSUME NEW r \in Rows', NEW e \in Dispatches, row'[r].own = "owned",
                          seat'[e] = row'[r].seat, Live(e)'
                   PROVE  e = row'[r].owner
        OBVIOUS
      <4>1. CASE r = x
        BY <1>3, <1>7, <2>3, <2>4, <4>1 DEF Live
      <4>2. CASE r # x
        <5>1. r \in Rows /\ row'[r] = row[r] /\ row[r].seat # s
          BY <1>1, <2>1, <2>3, <4>2 DEF SeatsOK
        <5> QED
          BY <1>1, <1>3, <5>1 DEF SeatsOK, Live
      <4> QED
        BY <4>1, <4>2
    <3> QED
      BY <1>8, <3>1, <3>2, <3>3 DEF SeatsOK
  <2>7. ReleasesOK'
    BY <1>1, <1>2, <1>6, <1>9, <2>1, <2>3, <2>4 DEF ReleasesOK, Settled, Gone, PendingStates
  <2>8. JobsOK'
    BY <1>1, <1>2, <2>1, <2>3 DEF JobsOK, Types, TypeOK
  <2> QED
    BY <1>1, <1>4, <2>5, <2>6, <2>7, <2>8 DEF TerminalInv, PanesMove
<1> QED
  BY <1>10, <1>11 DEF StartInExisting

-----------------------------------------------------------------------------
(* Releases *)

(* What a step may do to a row: it names the same owner and seat, nobody    *)
(* comes to own the terminal, and what a release promises holds.            *)
RowMoves(q) ==
  /\ row'[q] \in RowType /\ row'[q].owner = row[q].owner /\ row'[q].seat = row[q].seat
  /\ row'[q].own = "owned" => row[q].own = "owned"
  /\ row'[q].rel = "released" <=> row'[q].own = "released"
  /\ row'[q].rel \in PendingStates => row'[q].own = "owned" /\ Settled(row[q].owner)
  /\ row'[q].rel = "released" => Gone(row[q].seat)

ReleaseStep ==
  /\ row' \in [Dispatches -> {NoRow} \cup RowType] /\ Rows' = Rows
  /\ \A q \in Rows : RowMoves(q)
  /\ archive' \in [Dispatches -> {None} \cup {<<r>> : r \in Dispatches}]
  /\ \A q \in Rows : row'[q].rel = "releasing" => archive'[row[q].owner] = <<q>>
  /\ JobsOK'

LEMMA ReleaseStepInv ==
  ASSUME TerminalInv, ReleaseStep, UNCHANGED <<worker, seat, injected, paneVars, boots>>,
         jobs' \subseteq [row : Rows, disp : Dispatches, mode : {"interactive", "recovery"},
                          pc : JobPcs],
         stops' = stops, probes' \subseteq Dispatches \X Rows, pass' = pass
  PROVE  TerminalInv'
<1>1. Types /\ PanesOK /\ OwnersOK /\ SeatsOK /\ ReleasesOK /\ JobsOK
  BY DEF TerminalInv
<1>2. UNCHANGED <<worker, seat, injected, inc, running, view, boots, stops, pass>>
  BY DEF paneVars
<1>3. \A r \in Dispatches : row'[r] = NoRow \/ row'[r] \in RowType
  BY DEF ReleaseStep
<1>4. Types'
  BY <1>1, <1>2, <1>3 DEF ReleaseStep, Types, TypeOK
<1>5. \A q \in Rows : q \in Dispatches /\ row[q].owner \in Dispatches
  BY <1>1, SeatOfRow
<1>6. OwnersOK'
  BY <1>1, <1>2 DEF OwnersOK, ReleaseStep, RowMoves
<1>7. SeatsOK'
  <2>1. /\ \A d \in Dispatches : seat'[d] # None => seat'[d][2] <= inc'[seat'[d][1]]
        /\ \A r \in Rows' : row'[r].seat # None
    BY <1>1, <1>2 DEF SeatsOK, ReleaseStep, RowMoves
  <2>2. \A r, q \in Rows' : row'[r].own = "owned" /\ row'[q].own = "owned" /\ row'[r].seat = row'[q].seat
                              => r = q
    BY <1>1 DEF SeatsOK, ReleaseStep, RowMoves
  <2>3. \A r \in Rows', d \in Dispatches :
          row'[r].own = "owned" /\ seat'[d] = row'[r].seat /\ Live(d)' => d = row'[r].owner
    BY <1>1, <1>2 DEF SeatsOK, Live, ReleaseStep, RowMoves
  <2> QED
    BY <2>1, <2>2, <2>3 DEF SeatsOK
<1>8. ReleasesOK'
  <2> SUFFICES ASSUME NEW r \in Rows
               PROVE  /\ row'[r].rel = "released" <=> row'[r].own = "released"
                      /\ row'[r].rel \in PendingStates
                           => row'[r].own = "owned" /\ worker'[row'[r].owner] \in SettledStates
                      /\ row'[r].rel = "releasing" => archive'[row'[r].owner] = <<r>>
                      /\ row'[r].rel = "released"
                           => ~running'[row'[r].seat[1]] \/ inc'[row'[r].seat[1]] # row'[r].seat[2]
    BY DEF ReleasesOK, Settled, Gone, ReleaseStep
  <2>1. RowMoves(r) /\ (row'[r].rel = "releasing" => archive'[row[r].owner] = <<r>>)
    BY DEF ReleaseStep
  <2> QED
    BY <1>2, <2>1 DEF RowMoves, Settled, Gone
<1>9. PanesOK'
  BY <1>1, <1>2 DEF PanesOK
<1> QED
  BY <1>4, <1>6, <1>7, <1>8, <1>9 DEF TerminalInv, ReleaseStep

LEMMA RowsQuiet ==
  ASSUME TerminalInv, row' = row, archive' = archive, JobsOK'
  PROVE  ReleaseStep
<1>1. Types /\ ReleasesOK /\ Rows' = Rows /\ OwnersOK /\ SeatsOK
  BY DEF TerminalInv, Rows
<1> QED
  BY <1>1, SeatOfRow DEF ReleaseStep, RowMoves, ReleasesOK, Types, TypeOK

(* One row changes its release and its reason, perhaps its ownership.       *)
LEMMA OneRow ==
  ASSUME Types, NEW r \in Rows, NEW to \in RowType, row' = [row EXCEPT ![r] = to]
  PROVE  /\ row' \in [Dispatches -> {NoRow} \cup RowType] /\ Rows' = Rows
         /\ row'[r] = to /\ \A q \in Rows : q # r => row'[q] = row[q]
<1>1. r \in Dispatches /\ \A q \in Dispatches : row'[q] = IF q = r THEN to ELSE row[q]
  BY DEF Types, Rows
<1>2. to # NoRow
  BY DEF RowType, NoRow
<1> QED
  BY <1>1, <1>2 DEF Rows, Types

Reasons == {"none", "external_terminal", "user_requested", "user_takeover", "identity_unproven"}

LEMMA SetReleaseRow ==
  ASSUME Types, NEW r \in Rows, NEW rel \in ReleaseStates, NEW why \in Reasons,
         SetRelease(r, rel, why)
  PROVE  /\ row' \in [Dispatches -> {NoRow} \cup RowType] /\ Rows' = Rows
         /\ row'[r] \in RowType
         /\ row'[r].owner = row[r].owner /\ row'[r].seat = row[r].seat /\ row'[r].own = row[r].own
         /\ row'[r].rel = rel /\ row'[r].why = why
         /\ \A q \in Rows : q # r => row'[q] = row[q]
<1>1. r \in Dispatches /\ row[r] \in RowType
  BY ARowIsTyped DEF Rows
<1>2. PICK to : to = [row[r] EXCEPT !.rel = rel, !.why = why]
  OBVIOUS
<1>3. /\ to \in RowType /\ to.owner = row[r].owner /\ to.seat = row[r].seat /\ to.own = row[r].own
      /\ to.rel = rel /\ to.why = why
  BY <1>1, <1>2 DEF RowType, Reasons
<1>4. row' = [row EXCEPT ![r] = to]
  BY <1>1, <1>2 DEF SetRelease, Types, RowType
<1> QED
  BY <1>3, <1>4, OneRow

LEMMA SettledRow ==
  ASSUME Types, NEW r \in Rows, NEW why \in Reasons,
         \/ row' = [row EXCEPT ![r].rel = "released", ![r].own = "released", ![r].why = why]
         \/ row' = [row EXCEPT ![r].rel = "released", ![r].own = "released"]
  PROVE  /\ row' \in [Dispatches -> {NoRow} \cup RowType] /\ Rows' = Rows
         /\ row'[r] \in RowType
         /\ row'[r].owner = row[r].owner /\ row'[r].seat = row[r].seat
         /\ row'[r].own = "released" /\ row'[r].rel = "released"
         /\ \A q \in Rows : q # r => row'[q] = row[q]
<1>1. r \in Dispatches /\ row[r] \in RowType
  BY ARowIsTyped DEF Rows
<1>2. PICK to : /\ to \in RowType /\ to.owner = row[r].owner /\ to.seat = row[r].seat
                /\ to.own = "released" /\ to.rel = "released"
                /\ row' = [row EXCEPT ![r] = to]
  <2>1. CASE row' = [row EXCEPT ![r].rel = "released", ![r].own = "released", ![r].why = why]
    <3>1. PICK to : to = [row[r] EXCEPT !.rel = "released", !.own = "released", !.why = why]
      OBVIOUS
    <3>2. /\ to \in RowType /\ to.owner = row[r].owner /\ to.seat = row[r].seat
          /\ to.own = "released" /\ to.rel = "released"
      BY <1>1, <3>1 DEF RowType, Reasons, ReleaseStates
    <3>3. row' = [row EXCEPT ![r] = to]
      BY <1>1, <2>1, <3>1 DEF Types, RowType
    <3> QED
      BY <3>2, <3>3
  <2>2. CASE row' = [row EXCEPT ![r].rel = "released", ![r].own = "released"]
    <3>1. PICK to : to = [row[r] EXCEPT !.rel = "released", !.own = "released"]
      OBVIOUS
    <3>2. /\ to \in RowType /\ to.owner = row[r].owner /\ to.seat = row[r].seat
          /\ to.own = "released" /\ to.rel = "released"
      BY <1>1, <3>1 DEF RowType, ReleaseStates
    <3>3. row' = [row EXCEPT ![r] = to]
      BY <1>1, <2>2, <3>1 DEF Types, RowType
    <3> QED
      BY <3>2, <3>3
  <2> QED
    BY <2>1, <2>2
<1> QED
  BY <1>2, OneRow

(* One row moves, and nobody else's archive.                                *)
LEMMA OneRowStep ==
  ASSUME TerminalInv, NEW r \in Rows, row' \in [Dispatches -> {NoRow} \cup RowType], Rows' = Rows,
         RowMoves(r), \A q \in Rows : q # r => row'[q] = row[q],
         archive' \in [Dispatches -> {None} \cup {<<q>> : q \in Dispatches}],
         \A d \in Dispatches : d # row[r].owner => archive'[d] = archive[d],
         row'[r].rel = "releasing" => archive'[row[r].owner] = <<r>>,
         JobsOK'
  PROVE  ReleaseStep
<1>1. Types /\ ReleasesOK /\ OwnersOK /\ SeatsOK
  BY DEF TerminalInv
<1>2. ASSUME NEW q \in Rows, q # r
      PROVE  /\ RowMoves(q)
             /\ row'[q].rel = "releasing" => archive'[row[q].owner] = <<q>>
  <2>1. row'[q] = row[q] /\ row[q].owner # row[r].owner /\ row[q].owner \in Dispatches
        /\ row[q] \in RowType
    BY <1>1, <1>2, SeatOfRow DEF OwnersOK
  <2> QED
    BY <1>1, <2>1 DEF RowMoves, ReleasesOK
<1> QED
  BY <1>2 DEF ReleaseStep


-----------------------------------------------------------------------------
(* Release steps, one by one *)

(* Only row r moves.                                                        *)
MovesOnly(r) ==
  /\ row' \in [Dispatches -> {NoRow} \cup RowType] /\ Rows' = Rows
  /\ RowMoves(r)
  /\ \A q \in Rows : q # r => row'[q] = row[q]

LEMMA RowQuiet ==
  ASSUME TerminalInv, NEW r \in Rows, row' = row
  PROVE  MovesOnly(r)
<1>1. Types /\ ReleasesOK /\ Rows' = Rows /\ OwnersOK /\ SeatsOK
  BY DEF TerminalInv, Rows
<1> QED
  BY <1>1, SeatOfRow DEF MovesOnly, RowMoves, ReleasesOK, Types

LEMMA SetReleaseMoves ==
  ASSUME TerminalInv, NEW r \in Rows, NEW rel \in ReleaseStates \ {"released"}, NEW why \in Reasons,
         SetRelease(r, rel, why), row[r].rel # "released",
         rel \in PendingStates => row[r].own = "owned" /\ Settled(row[r].owner)
  PROVE  MovesOnly(r) /\ row'[r].rel = rel
<1>1. Types /\ ReleasesOK
  BY DEF TerminalInv
<1>2. row[r].own # "released"
  BY <1>1 DEF ReleasesOK
<1> QED
  BY <1>1, <1>2, SetReleaseRow DEF MovesOnly, RowMoves

(* A pending release is withdrawn, given up on, or confirmed: the row is no *)
(* longer committed.                                                        *)
LEMMA RevertMoves ==
  ASSUME TerminalInv, NEW r \in Rows, Revert(r)
  PROVE  MovesOnly(r) /\ row'[r].rel # "releasing"
<1>1. CASE row[r].rel \in {"requested", "releasing"}
  BY <1>1, SetReleaseMoves DEF Revert, ReleaseStates, PendingStates, Reasons
<1>2. CASE row[r].rel \notin {"requested", "releasing"}
  BY <1>2, RowQuiet DEF Revert
<1> QED
  BY <1>1, <1>2

LEMMA MarkUnknownMoves ==
  ASSUME TerminalInv, NEW r \in Rows, MarkUnknown(r)
  PROVE  MovesOnly(r) /\ row'[r].rel # "releasing"
<1>1. Types /\ ReleasesOK /\ row[r] \in RowType
  BY ARowIsTyped DEF TerminalInv, Rows
<1>2. CASE row[r].rel \in {"requested", "releasing"}
  <2>1. /\ row[r].own = "owned" /\ Settled(row[r].owner) /\ row[r].why \in Reasons
        /\ row[r].rel # "released" /\ "unknown" \in ReleaseStates \ {"released"}
    BY <1>1, <1>2 DEF ReleasesOK, PendingStates, RowType, Reasons, ReleaseStates
  <2>2. SetRelease(r, "unknown", row[r].why)
    BY <1>2 DEF MarkUnknown
  <2> QED
    BY <2>1, <2>2, SetReleaseMoves
<1>3. CASE row[r].rel \notin {"requested", "releasing"}
  BY <1>3, RowQuiet DEF MarkUnknown
<1> QED
  BY <1>2, <1>3

LEMMA SettledMoves ==
  ASSUME TerminalInv, NEW r \in Rows, NEW why \in Reasons, Gone(row[r].seat),
         \/ row' = [row EXCEPT ![r].rel = "released", ![r].own = "released", ![r].why = why]
         \/ row' = [row EXCEPT ![r].rel = "released", ![r].own = "released"]
  PROVE  MovesOnly(r) /\ row'[r].rel # "releasing"
<1>1. Types
  BY DEF TerminalInv
<1> QED
  BY <1>1, SettledRow DEF MovesOnly, RowMoves, PendingStates

LEMMA SettleReleaseMoves ==
  ASSUME TerminalInv, NEW r \in Rows, SettleRelease(r), Gone(row[r].seat)
  PROVE  MovesOnly(r) /\ (row' = row \/ row'[r].rel # "releasing")
<1>1. CASE row[r].rel \in PendingStates
  <2>1. row' = [row EXCEPT ![r].rel = "released", ![r].own = "released"] /\ "none" \in Reasons
    BY <1>1 DEF SettleRelease, Reasons
  <2> QED
    BY <2>1, SettledMoves
<1>2. CASE row[r].rel \notin PendingStates
  BY <1>2, RowQuiet DEF SettleRelease
<1> QED
  BY <1>1, <1>2

(* The completion that ends, or goes on, is the only one of its row.        *)
LEMMA AJobIsTyped ==
  ASSUME Types, NEW j \in jobs
  PROVE  j.row \in Rows /\ j.disp \in Dispatches /\ j.pc \in JobPcs
BY DEF Types, TypeOK

JobTypes == [row : Rows, disp : Dispatches, mode : {"interactive", "recovery"}, pc : JobPcs]

LEMMA EndJobOK ==
  ASSUME TerminalInv, NEW j \in jobs, EndJob(j), \A q \in Rows : q # j.row => row'[q] = row[q]
  PROVE  JobsOK' /\ jobs' \subseteq JobTypes
<1>1. Types /\ JobsOK /\ jobs' = jobs \ {j}
  BY DEF TerminalInv, EndJob
<1>2. \A k \in jobs' : k \in jobs /\ k.row \in Rows /\ k.row # j.row
  BY <1>1, AJobIsTyped DEF JobsOK
<1> QED
  BY <1>1, <1>2 DEF JobsOK, JobTypes, Types, TypeOK

LEMMA StepJobOK ==
  ASSUME TerminalInv, NEW j \in jobs, NEW pc \in JobPcs, StepJob(j, pc),
         \A q \in Rows : q # j.row => row'[q] = row[q],
         pc = "close" => row'[j.row].rel = "releasing"
  PROVE  JobsOK' /\ jobs' \subseteq JobTypes
<1>1. Types /\ JobsOK
  BY DEF TerminalInv
<1>2. PICK k : k = [j EXCEPT !.pc = pc]
  OBVIOUS
<1>3. j \in JobTypes
  BY <1>1 DEF JobTypes, Types, TypeOK
<1>4. k \in JobTypes /\ k.row = j.row /\ k.pc = pc
  BY <1>2, <1>3 DEF JobTypes
<1>5. jobs' = (jobs \ {j}) \cup {k}
  BY <1>2 DEF StepJob
<1>6. \A i \in jobs \ {j} : i.row \in Rows /\ i.row # j.row
  BY <1>1, AJobIsTyped DEF JobsOK
<1>7. jobs' \subseteq JobTypes
  BY <1>1, <1>4, <1>5 DEF JobTypes, Types, TypeOK
<1>8. JobsOK'
  BY <1>1, <1>4, <1>5, <1>6 DEF JobsOK
<1> QED
  BY <1>7, <1>8

-----------------------------------------------------------------------------
(* worker-release, worker-retain, a verdict and the user's input *)

(* A call on a row: what changes is that row, the owner's archive and the   *)
(* calls in flight.                                                         *)
LEMMA OneRowInv ==
  ASSUME TerminalInv, NEW r \in Rows, MovesOnly(r),
         archive' \in [Dispatches -> {None} \cup {<<q>> : q \in Dispatches}],
         \A d \in Dispatches : d # row[r].owner => archive'[d] = archive[d],
         row'[r].rel = "releasing" => archive'[row[r].owner] = <<r>>,
         JobsOK', jobs' \subseteq JobTypes, probes' \subseteq Dispatches \X Rows,
         UNCHANGED <<worker, seat, injected, paneVars, stops, pass, boots>>
  PROVE  TerminalInv'
<1>1. ReleaseStep
  BY OneRowStep DEF MovesOnly
<1> QED
  BY <1>1, ReleaseStepInv DEF JobTypes

(* A row that is not committed, or stays so, may move: no close is under    *)
(* way on it, or the one under way goes on.                                 *)
LEMMA JobsAllowMove ==
  ASSUME TerminalInv, NEW r \in Rows, \A q \in Rows : q # r => row'[q] = row[q],
         row[r].rel = "releasing" => row'[r].rel = "releasing"
  PROVE  \A j \in jobs : j.pc = "close" => row'[j.row].rel = "releasing"
BY AJobIsTyped DEF TerminalInv, JobsOK

LEMMA StartJobTyped ==
  ASSUME Types, NEW r \in Rows, NEW d \in Dispatches, NEW mode \in {"interactive", "recovery"},
         StartJob(r, d, mode)
  PROVE  jobs' \subseteq JobTypes
<1>1. Job(r, d, mode, "inspect") \in JobTypes
  BY DEF Job, JobTypes, JobPcs
<1> QED
  BY <1>1 DEF StartJob, JobTypes, Types, TypeOK

LEMMA RequestReleaseInv ==
  ASSUME TerminalInv, NEW d \in Dispatches, NEW r \in RowsOwnedBy(d), Settled(d),
         row[r].rel # "released", Releasable(d, r), RequestRelease(d, r),
         UNCHANGED <<worker, seat, injected, paneVars, stops, pass, boots>>
  PROVE  TerminalInv'
<1>1. Types /\ ReleasesOK /\ r \in Rows /\ row[r].owner = d /\ row[r].own = "owned"
  BY DEF TerminalInv, RowsOwnedBy, Releasable
<1>2. PICK rel : rel = NextRequest(row[r].rel)
  OBVIOUS
<1>3. /\ rel \in ReleaseStates \ {"released"} /\ "none" \in Reasons
      /\ rel = "releasing" <=> row[r].rel = "releasing"
  BY <1>2 DEF NextRequest, ReleaseStates, Reasons
<1>4. /\ SetRelease(r, rel, "none") /\ StartJob(r, d, "interactive") /\ probes' = probes
      /\ archive' = [archive EXCEPT ![d] =
           IF row[r].rel = "retained" /\ row[r].why = "user_requested" THEN None ELSE @]
  BY <1>2 DEF RequestRelease
<1>5. MovesOnly(r) /\ row'[r].rel = rel
  BY <1>1, <1>3, <1>4, SetReleaseMoves
<1>6. /\ archive' \in [Dispatches -> {None} \cup {<<q>> : q \in Dispatches}]
      /\ \A c \in Dispatches : c # d => archive'[c] = archive[c]
  BY <1>1, <1>4 DEF Types, TypeOK
<1>7. row'[r].rel = "releasing" => archive'[d] = <<r>>
  <2>1. ASSUME row[r].rel = "releasing" PROVE archive'[d] = archive[d] /\ archive[d] = <<r>>
    BY <1>1, <1>4, <2>1 DEF Types, TypeOK, ReleasesOK
  <2> QED
    BY <1>3, <1>5, <2>1
<1>8. \A j \in jobs : j.pc = "close" => row'[j.row].rel = "releasing"
  BY <1>1, <1>3, <1>5, JobsAllowMove DEF MovesOnly
<1>9. JobsOK' /\ jobs' \subseteq JobTypes
  BY <1>1, <1>4, <1>8, StartJobOK, StartJobTyped DEF TerminalInv
<1>10. probes' \subseteq Dispatches \X Rows
  BY <1>1, <1>4 DEF Types, TypeOK
<1> QED
  BY <1>1, <1>5, <1>6, <1>7, <1>9, <1>10, OneRowInv

LEMMA AwaitVerdictInv ==
  ASSUME TerminalInv, NEW d \in Dispatches, NEW r \in Rows, AwaitVerdict(d, r),
         UNCHANGED <<worker, seat, injected, paneVars, stops, pass, boots>>
  PROVE  TerminalInv'
<1>1. Types /\ ReleasesOK /\ OwnersOK /\ SeatsOK /\ JobsOK
  BY DEF TerminalInv
<1>2. UNCHANGED <<row, archive, jobs>> /\ probes' = probes \cup {<<d, r>>}
  BY DEF AwaitVerdict
<1>3. JobsOK'
  BY <1>1, <1>2, JobsStay
<1>4. ReleaseStep
  BY <1>2, <1>3, RowsQuiet
<1>5. jobs' \subseteq [row : Rows, disp : Dispatches, mode : {"interactive", "recovery"}, pc : JobPcs]
  BY <1>1, <1>2 DEF Types, TypeOK
<1>6. probes' \subseteq Dispatches \X Rows
  BY <1>1, <1>2 DEF Types, TypeOK
<1> QED
  BY <1>4, <1>5, <1>6, ReleaseStepInv

LEMMA WorkerReleaseInv ==
  ASSUME TerminalInv, NEW d \in Dispatches, WorkerRelease(d)
  PROVE  TerminalInv'
<1>1. UNCHANGED <<worker, seat, injected, paneVars, stops, pass, boots>> /\ Settled(d)
  BY DEF WorkerRelease
<1>2. ASSUME NEW r \in RowsOwnedBy(d), row[r].rel # "released",
             IF Releasable(d, r) THEN RequestRelease(d, r) ELSE AwaitVerdict(d, r)
      PROVE  TerminalInv'
  <2>1. r \in Rows
    BY DEF RowsOwnedBy
  <2> QED
    BY <1>1, <1>2, <2>1, RequestReleaseInv, AwaitVerdictInv
<1>3. ASSUME NEW r \in RowsOnceOwnedBy(d), AwaitVerdict(d, r)
      PROVE  TerminalInv'
  <2>1. r \in Rows
    BY DEF RowsOnceOwnedBy
  <2> QED
    BY <1>1, <1>3, <2>1, AwaitVerdictInv
<1> QED
  BY <1>2, <1>3 DEF WorkerRelease

LEMMA VerdictInv ==
  ASSUME TerminalInv, NEW d \in Dispatches, NEW r \in Dispatches, Verdict(d, r)
  PROVE  TerminalInv'
<1>1. Types /\ ReleasesOK /\ OwnersOK /\ SeatsOK /\ JobsOK
  BY DEF TerminalInv
<1>2. r \in Rows
  BY <1>1 DEF Verdict, Types, TypeOK
<1>3. /\ UNCHANGED <<worker, seat, injected, archive, paneVars, jobs, stops, pass, boots>>
      /\ probes' \subseteq Dispatches \X Rows
      /\ archive' \in [Dispatches -> {None} \cup {<<q>> : q \in Dispatches}]
      /\ jobs' \subseteq JobTypes
  BY <1>1 DEF Verdict, Types, TypeOK, JobTypes
<1>4. MovesOnly(r) /\ (row[r].rel = "releasing" => row' = row)
      /\ (row' = row \/ row'[r].rel # "releasing")
  <2>1. CASE row' = row
    BY <1>2, <2>1, RowQuiet
  <2>2. CASE row' # row
    <3>1. /\ Gone(row[r].seat) /\ row[r].rel # "releasing" /\ "none" \in Reasons
          /\ row' = [row EXCEPT ![r].rel = "released", ![r].own = "released", ![r].why = "none"]
      BY <2>2 DEF Verdict, DeadRelease, Reasons
    <3> QED
      BY <1>2, <3>1, SettledMoves
  <2> QED
    BY <2>1, <2>2
<1>5. \A j \in jobs : j.pc = "close" => row'[j.row].rel = "releasing"
  BY <1>2, <1>4, JobsAllowMove DEF MovesOnly
<1>6. JobsOK'
  BY <1>1, <1>3, <1>5 DEF JobsOK
<1>7. row'[r].rel = "releasing" => archive'[row[r].owner] = <<r>>
  BY <1>1, <1>2, <1>3, <1>4 DEF ReleasesOK
<1> QED
  BY <1>2, <1>3, <1>4, <1>6, <1>7, OneRowInv

LEMMA WorkerRetainInv ==
  ASSUME TerminalInv, NEW d \in Dispatches, WorkerRetain(d)
  PROVE  TerminalInv'
<1>1. Types /\ ReleasesOK /\ JobsOK
  BY DEF TerminalInv
<1>2. PICK r \in RowsOwnedBy(d) : /\ row[r].rel \in {"not_requested", "retained", "requested"}
                                  /\ SetRelease(r, "retained", "user_requested")
  BY DEF WorkerRetain
<1>3. r \in Rows /\ row[r].owner = d /\ row[r].rel # "releasing"
  BY <1>2 DEF RowsOwnedBy
<1>4. MovesOnly(r) /\ row'[r].rel = "retained"
  BY <1>2, <1>3, SetReleaseMoves DEF ReleaseStates, PendingStates, Reasons
<1>5. /\ UNCHANGED <<worker, seat, injected, paneVars, jobs, stops, probes, pass, boots>>
      /\ archive' = [archive EXCEPT ![d] = None]
  BY DEF WorkerRetain, callVars
<1>6. /\ archive' \in [Dispatches -> {None} \cup {<<q>> : q \in Dispatches}]
      /\ \A c \in Dispatches : c # row[r].owner => archive'[c] = archive[c]
  BY <1>1, <1>3, <1>5 DEF Types, TypeOK
<1>7. jobs' \subseteq JobTypes /\ probes' \subseteq Dispatches \X Rows
  BY <1>1, <1>5 DEF Types, TypeOK, JobTypes
<1>8. JobsOK'
  BY <1>1, <1>3, <1>4, <1>5, JobsAllowMove DEF JobsOK, MovesOnly
<1>9. UNCHANGED <<worker, seat, injected, paneVars, stops, pass, boots>>
  BY <1>5
<1> QED
  BY <1>3, <1>4, <1>6, <1>7, <1>8, <1>9, OneRowInv

(* The user's input takes every uncommitted row of the pane.                *)
LEMMA UserInputInv ==
  ASSUME TerminalInv, NEW t \in Terminals, UserInput(t)
  PROVE  TerminalInv'
<1>1. Types /\ ReleasesOK /\ OwnersOK /\ SeatsOK /\ JobsOK
  BY DEF TerminalInv
<1>2. PICK taken : taken = Taken(t)
  OBVIOUS
<1>3. /\ taken \subseteq Rows
      /\ \A r \in taken : row[r].own = "owned" /\ row[r].rel # "releasing"
  BY <1>2 DEF Taken
<1>4. /\ row' = [r \in Dispatches |->
                   IF r \in taken
                   THEN [row[r] EXCEPT !.own = "user_owned", !.rel = "retained", !.why = "user_takeover"]
                   ELSE row[r]]
      /\ archive' = [d \in Dispatches |->
                       IF \E r \in taken : row[r].owner = d THEN None ELSE archive[d]]
  BY <1>2 DEF UserInput
<1>5. \A r \in taken : /\ row'[r] \in RowType /\ row'[r].owner = row[r].owner
                       /\ row'[r].seat = row[r].seat
                       /\ row'[r].own = "user_owned" /\ row'[r].rel = "retained"
  <2> TAKE r \in taken
  <2>1. row[r] \in RowType /\ r \in Dispatches
    BY <1>1, <1>3, ARowIsTyped DEF Rows
  <2>2. PICK to : to = [row[r] EXCEPT !.own = "user_owned", !.rel = "retained", !.why = "user_takeover"]
    OBVIOUS
  <2>3. /\ to \in RowType /\ to.owner = row[r].owner /\ to.seat = row[r].seat
        /\ to.own = "user_owned" /\ to.rel = "retained"
    BY <2>1, <2>2 DEF RowType, ReleaseStates
  <2>4. row'[r] = to
    BY <1>4, <2>1, <2>2
  <2> QED
    BY <2>3, <2>4
<1>6. \A r \in Dispatches \ taken : row'[r] = row[r]
  BY <1>4
<1>7. row' \in [Dispatches -> {NoRow} \cup RowType]
  <2>1. \A r \in Dispatches : row'[r] \in {NoRow} \cup RowType
    BY <1>1, <1>5, <1>6 DEF Types
  <2>2. DOMAIN row' = Dispatches /\ row' = [r \in Dispatches |-> row'[r]]
    BY <1>4
  <2> QED
    BY <2>1, <2>2
<1>8. Rows' = Rows
  <2>1. \A r \in Dispatches : r \in taken => row'[r] # NoRow
    BY <1>5 DEF RowType, NoRow
  <2> QED
    BY <1>3, <1>6, <2>1 DEF Rows
<1>9. \A q \in Rows : RowMoves(q)
  <2> TAKE q \in Rows
  <2>1. CASE q \in taken
    BY <1>3, <1>5, <2>1 DEF RowMoves, PendingStates
  <2>2. CASE q \notin taken
    <3>1. row'[q] = row[q] /\ row[q] \in RowType
      BY <1>1, <1>6, <2>2, SeatOfRow
    <3> QED
      BY <1>1, <3>1 DEF RowMoves, ReleasesOK
  <2> QED
    BY <2>1, <2>2
<1>10. archive' \in [Dispatches -> {None} \cup {<<r>> : r \in Dispatches}]
  BY <1>1, <1>4 DEF Types, TypeOK
<1>11. ASSUME NEW q \in Rows, row'[q].rel = "releasing"
       PROVE  archive'[row[q].owner] = <<q>>
  <2>1. q \notin taken /\ row'[q] = row[q] /\ row[q].owner \in Dispatches
    BY <1>1, <1>5, <1>6, <1>11, SeatOfRow
  <2>2. ~ \E r \in taken : row[r].owner = row[q].owner
    BY <1>1, <1>3, <2>1 DEF OwnersOK
  <2> QED
    BY <1>1, <1>4, <1>11, <2>1, <2>2 DEF ReleasesOK
<1>12. UNCHANGED <<worker, seat, injected, paneVars, jobs, stops, probes, pass, boots>>
  BY DEF UserInput, callVars
<1>13. JobsOK'
  <2>1. \A j \in jobs : j.pc = "close" => row'[j.row].rel = "releasing"
    <3> TAKE j \in jobs
    <3>1. j.row \in Rows /\ j.row \in Dispatches /\ (j.pc = "close" => row[j.row].rel = "releasing")
      BY <1>1, AJobIsTyped DEF JobsOK, Rows
    <3> QED
      BY <1>3, <1>6, <3>1
  <2> QED
    BY <1>1, <1>12, <2>1 DEF JobsOK
<1>14. ReleaseStep
  BY <1>7, <1>8, <1>9, <1>10, <1>11, <1>13 DEF ReleaseStep
<1>15. /\ jobs' \subseteq [row : Rows, disp : Dispatches, mode : {"interactive", "recovery"},
                           pc : JobPcs]
       /\ probes' \subseteq Dispatches \X Rows
  BY <1>1, <1>12 DEF Types, TypeOK
<1>16. UNCHANGED <<worker, seat, injected, paneVars, boots>> /\ stops' = stops /\ pass' = pass
  BY <1>12
<1> QED
  BY <1>14, <1>15, <1>16, ReleaseStepInv

-----------------------------------------------------------------------------
(* A completion goes on *)

LEMMA CommitAndCloseInv ==
  ASSUME TerminalInv, NEW j \in jobs, CommitAndClose(j),
         UNCHANGED <<worker, seat, injected, paneVars, stops, probes, pass, boots>>
  PROVE  TerminalInv'
<1> PICK r, d : r = j.row /\ d = j.disp
  OBVIOUS
<1>1. /\ Types /\ ReleasesOK /\ r \in Rows /\ d \in Dispatches /\ row[r] \in RowType
      /\ "close" \in JobPcs
  BY AJobIsTyped, ARowIsTyped DEF TerminalInv, Rows, JobPcs
<1>2. probes' \subseteq Dispatches \X Rows
  BY <1>1 DEF Types, TypeOK
<1>3. CASE Commits(j) /\ LeaseCurrent(d, r)
  <2>1. /\ row[r].owner = d /\ row[r].own = "owned" /\ row[r].rel = "requested"
        /\ SetRelease(r, "releasing", row[r].why) /\ StepJob(j, "close")
        /\ archive' = [archive EXCEPT ![d] = <<r>>]
    BY <1>3 DEF CommitAndClose, Commits, StoreArchive
  <2>2. /\ "releasing" \in ReleaseStates \ {"released"} /\ row[r].why \in Reasons
        /\ Settled(row[r].owner)
    BY <1>1, <2>1 DEF ReleasesOK, PendingStates, ReleaseStates, RowType, Reasons
  <2>3. MovesOnly(r) /\ row'[r].rel = "releasing"
    BY <1>1, <2>1, <2>2, SetReleaseMoves
  <2>4. /\ archive' \in [Dispatches -> {None} \cup {<<q>> : q \in Dispatches}]
        /\ archive'[d] = <<r>> /\ \A c \in Dispatches : c # d => archive'[c] = archive[c]
    BY <1>1, <2>1 DEF Types, TypeOK, Rows
  <2>5. JobsOK' /\ jobs' \subseteq JobTypes
    BY <1>1, <2>1, <2>3, StepJobOK DEF MovesOnly
  <2> QED
    BY <1>1, <1>2, <2>1, <2>3, <2>4, <2>5, OneRowInv
<1>4. CASE Commits(j) /\ ~LeaseCurrent(d, r)
  <2>1. /\ row[r].owner = d /\ row[r].own = "owned" /\ row[r].rel = "requested"
        /\ SetRelease(r, "retained", "identity_unproven") /\ EndJob(j)
        /\ archive' = [archive EXCEPT ![d] = <<r>>]
    BY <1>4 DEF CommitAndClose, Commits, StoreArchive
  <2>2. MovesOnly(r) /\ row'[r].rel = "retained"
    BY <1>1, <2>1, SetReleaseMoves DEF ReleaseStates, PendingStates, Reasons
  <2>3. /\ archive' \in [Dispatches -> {None} \cup {<<q>> : q \in Dispatches}]
        /\ \A c \in Dispatches : c # d => archive'[c] = archive[c]
    BY <1>1, <2>1 DEF Types, TypeOK, Rows
  <2>4. JobsOK' /\ jobs' \subseteq JobTypes
    BY <2>1, <2>2, EndJobOK DEF MovesOnly
  <2> QED
    BY <1>1, <1>2, <2>1, <2>2, <2>3, <2>4, OneRowInv
<1>5. CASE ~Commits(j)
  <2>1. archive' = archive
    BY <1>5 DEF CommitAndClose
  <2>2. /\ archive' \in [Dispatches -> {None} \cup {<<q>> : q \in Dispatches}]
        /\ \A c \in Dispatches : c # row[r].owner => archive'[c] = archive[c]
    BY <1>1, <2>1 DEF Types, TypeOK
  <2>3. /\ MovesOnly(r) /\ JobsOK' /\ jobs' \subseteq JobTypes
        /\ row'[r].rel = "releasing" => row' = row
    <3>1. CASE row[r].own = "owned" /\ row[r].rel = "releasing"
      <4>1. CASE LeaseCurrent(d, r)
        <5>1. row' = row /\ StepJob(j, "close")
          BY <1>5, <3>1, <4>1 DEF CommitAndClose
        <5> QED
          BY <1>1, <3>1, <5>1, RowQuiet, StepJobOK
      <4>2. CASE ~LeaseCurrent(d, r)
        <5>1. SetRelease(r, "retained", "identity_unproven") /\ EndJob(j)
          BY <1>5, <3>1, <4>2 DEF CommitAndClose
        <5>2. MovesOnly(r) /\ row'[r].rel = "retained"
          BY <1>1, <3>1, <5>1, SetReleaseMoves DEF ReleaseStates, PendingStates, Reasons
        <5> QED
          BY <5>1, <5>2, EndJobOK DEF MovesOnly
      <4> QED
        BY <4>1, <4>2
    <3>2. CASE ~(row[r].own = "owned" /\ row[r].rel = "releasing")
      <4>1. row' = row /\ EndJob(j)
        BY <1>5, <3>2 DEF CommitAndClose
      <4> QED
        BY <1>1, <4>1, RowQuiet, EndJobOK
    <3> QED
      BY <3>1, <3>2
  <2>4. row'[r].rel = "releasing" => archive'[row[r].owner] = <<r>>
    BY <1>1, <2>1, <2>3 DEF ReleasesOK
  <2> QED
    BY <1>1, <1>2, <2>2, <2>3, <2>4, OneRowInv
<1> QED
  BY <1>3, <1>4, <1>5

(* A completion ends without committing anything.                           *)
LEMMA JobEndsInv ==
  ASSUME TerminalInv, NEW j \in jobs, EndJob(j), MovesOnly(j.row),
         row' = row \/ row'[j.row].rel # "releasing",
         UNCHANGED <<worker, seat, injected, archive, paneVars, stops, probes, pass, boots>>
  PROVE  TerminalInv'
<1>1. Types /\ ReleasesOK /\ j.row \in Rows
  BY AJobIsTyped DEF TerminalInv
<1>2. JobsOK' /\ jobs' \subseteq JobTypes
  BY EndJobOK DEF MovesOnly
<1>3. archive' = archive /\ probes' = probes
  OBVIOUS
<1>4. /\ archive' \in [Dispatches -> {None} \cup {<<q>> : q \in Dispatches}]
      /\ \A c \in Dispatches : c # row[j.row].owner => archive'[c] = archive[c]
      /\ row'[j.row].rel = "releasing" => archive'[row[j.row].owner] = <<j.row>>
      /\ probes' \subseteq Dispatches \X Rows
  BY <1>1, <1>3 DEF ReleasesOK, Types, TypeOK
<1> QED
  BY <1>1, <1>2, <1>4, OneRowInv

LEMMA InspectedInv ==
  ASSUME TerminalInv, NEW j \in jobs, Inspected(j)
  PROVE  TerminalInv'
<1>1. Types /\ ReleasesOK /\ JobsOK /\ j.row \in Rows /\ "capture" \in JobPcs /\ "capture" # "close"
  BY AJobIsTyped DEF TerminalInv, JobPcs
<1>2. UNCHANGED <<worker, seat, injected, paneVars, stops, probes, pass, boots>>
  BY DEF Inspected
<1>3. CASE Revert(j.row) /\ EndJob(j) /\ UNCHANGED archive
  BY <1>1, <1>2, <1>3, RevertMoves, JobEndsInv
<1>4. CASE row' = row /\ EndJob(j) /\ UNCHANGED archive
  BY <1>1, <1>2, <1>4, RowQuiet, JobEndsInv
<1>5. CASE MarkUnknown(j.row) /\ EndJob(j) /\ UNCHANGED archive
  BY <1>1, <1>2, <1>5, MarkUnknownMoves, JobEndsInv
<1>6. CASE StepJob(j, "capture") /\ UNCHANGED <<row, archive>>
  <2>1. JobsOK' /\ jobs' \subseteq JobTypes
    BY <1>1, <1>6, StepJobOK
  <2>2. ReleaseStep
    BY <1>6, <2>1, RowsQuiet
  <2>3. probes' \subseteq Dispatches \X Rows
    BY <1>1, <1>2 DEF Types, TypeOK
  <2> QED
    BY <1>2, <2>1, <2>2, <2>3, ReleaseStepInv DEF JobTypes
<1>7. CASE CommitAndClose(j)
  BY <1>2, <1>7, CommitAndCloseInv
<1> QED
  BY <1>3, <1>4, <1>5, <1>6, <1>7 DEF Inspected

LEMMA CapturedInv ==
  ASSUME TerminalInv, NEW j \in jobs, Captured(j)
  PROVE  TerminalInv'
<1>1. j.row \in Rows
  BY AJobIsTyped DEF TerminalInv
<1>2. UNCHANGED <<worker, seat, injected, paneVars, stops, probes, pass, boots>>
  BY DEF Captured
<1>3. CASE EndJob(j) /\ UNCHANGED <<row, archive>>
  BY <1>1, <1>2, <1>3, RowQuiet, JobEndsInv
<1> QED
  BY <1>2, <1>3, CommitAndCloseInv DEF Captured

LEMMA ClosedInv ==
  ASSUME TerminalInv, NEW j \in jobs, Closed(j)
  PROVE  TerminalInv'
<1>1. j.row \in Rows
  BY AJobIsTyped DEF TerminalInv
<1>2. /\ UNCHANGED <<worker, seat, injected, archive, paneVars, stops, probes, pass, boots>>
      /\ EndJob(j)
  BY DEF Closed
<1>3. CASE PtyKilled(j) /\ SettleRelease(j.row)
  BY <1>1, <1>2, <1>3, SettleReleaseMoves, JobEndsInv DEF PtyKilled
<1>4. CASE MarkUnknown(j.row)
  BY <1>1, <1>2, <1>4, MarkUnknownMoves, JobEndsInv
<1>5. CASE row' = row
  BY <1>1, <1>2, <1>5, RowQuiet, JobEndsInv
<1> QED
  BY <1>3, <1>4, <1>5 DEF Closed

-----------------------------------------------------------------------------
(* The theorems *)

LEMMA TerminalInit ==
  ASSUME Init
  PROVE  TerminalInv
<1>1. Rows = {}
  BY DEF Init, Rows
<1>2. Types
  BY <1>1, BoundsAssumption DEF Init, Types, TypeOK, NoRow, NoPass, SeatType
<1>3. PanesOK
  BY DEF Init, PanesOK
<1>4. SeatsOK
  BY <1>1 DEF Init, SeatsOK
<1>5. OwnersOK /\ ReleasesOK /\ JobsOK
  BY <1>1 DEF Init, OwnersOK, ReleasesOK, JobsOK
<1> QED
  BY <1>2, <1>3, <1>4, <1>5 DEF TerminalInv

LEMMA TerminalPreserved ==
  ASSUME TerminalInv, [Next]_vars
  PROVE  TerminalInv'
<1>1. CASE Next
  <2>1. ASSUME NEW d \in Dispatches,
               \/ FinishStart(d) \/ Report(d) \/ Abandon(d)
               \/ BeginStop(d) \/ StopInspected(d) \/ StopReturns(d)
        PROVE  TerminalInv'
    BY <2>1, WorkerStepInv
  <2>2. ASSUME NEW d \in Dispatches, WorkerRelease(d) \/ WorkerRetain(d)
        PROVE  TerminalInv'
    BY <2>2, WorkerReleaseInv, WorkerRetainInv
  <2>3. ASSUME NEW d \in Dispatches, NEW t \in Terminals, StartInNew(d, t) \/ StartInExisting(d, t)
        PROVE  TerminalInv'
    BY <2>3, StartInNewInv, StartInExistingInv
  <2>4. ASSUME NEW d \in Dispatches, NEW r \in Dispatches, Verdict(d, r)
        PROVE  TerminalInv'
    BY <2>4, VerdictInv
  <2>5. ASSUME NEW j \in jobs, Inspected(j) \/ Captured(j) \/ Closed(j)
        PROVE  TerminalInv'
    BY <2>5, InspectedInv, CapturedInv, ClosedInv
  <2>6. ASSUME NEW t \in Terminals, UserInput(t)
        PROVE  TerminalInv'
    BY <2>6, UserInputInv
  <2>7. ASSUME NEW t \in Terminals,
               \/ Inject(t) \/ EndInjected(t) \/ UserSpawn(t) \/ ProcessEnds(t) \/ ExitSeen(t)
               \/ LoseContact(t)
        PROVE  TerminalInv'
    BY <2>7, PaneStepInv
  <2>8. ASSUME NEW ts, NEW missing, Discover(ts, missing)
        PROVE  TerminalInv'
    BY <2>8, DiscoverInv
  <2>9. CASE PassResumes \/ Restart
    BY <2>9, PassResumesInv, RestartInv
  <2> QED
    BY <1>1, <2>1, <2>2, <2>3, <2>4, <2>5, <2>6, <2>7, <2>8, <2>9 DEF Next
<1>2. CASE UNCHANGED vars
  <2>1. UNCHANGED <<worker, seat, injected, row, archive, inc, running, view, jobs, stops, probes,
                    pass, boots>>
    BY <1>2 DEF vars, dbVars, paneVars, callVars
  <2>2. Types /\ PanesOK /\ OwnersOK /\ SeatsOK /\ ReleasesOK /\ JobsOK
    BY DEF TerminalInv
  <2>3. Types' /\ row' = row
    BY <2>1, <2>2 DEF Types, TypeOK, Rows
  <2>4. WorkerMoves /\ PanesMove /\ PanesOK'
    BY <2>1, <2>2 DEF WorkerMoves, PanesMove, PanesOK, Settled, Live, Types, TypeOK
  <2>5. OwnersOK' /\ SeatsOK' /\ ReleasesOK'
    BY <2>1, <2>2, <2>3, <2>4, RowsStay
  <2> QED
    BY <2>1, <2>2, <2>3, <2>4, <2>5, JobsStay DEF TerminalInv
<1> QED
  BY <1>1, <1>2

LEMMA TerminalAlways == Spec => []TerminalInv
BY TerminalInit, TerminalPreserved, PTL DEF Spec

(* The columns keep their types and the calls in flight name rows that      *)
(* exist.                                                                   *)
THEOREM TypeCorrect == Spec => []TypeOK
<1>1. TerminalInv => TypeOK
  BY DEF TerminalInv, Types
<1> QED
  BY <1>1, TerminalAlways, PTL

(* A release is pending only on a terminal where no worker is at work: its  *)
(* owner has settled, and whoever is bound to an owned terminal is the      *)
(* owner.                                                                   *)
THEOREM ReleaseIsIdle == Spec => []PendingReleaseIsIdle
<1>1. TerminalInv => PendingReleaseIsIdle
  BY DEF TerminalInv, SeatsOK, ReleasesOK, PendingReleaseIsIdle, Settled, Live, LiveStates, SettledStates
<1> QED
  BY <1>1, TerminalAlways, PTL

(* A close in flight holds the terminal: its row is owned and committed,    *)
(* the output is archived and no other completion works on it.              *)
THEOREM CloseIsExclusive == Spec => []CloseHoldsTerminal
<1>1. TerminalInv => CloseHoldsTerminal
  BY AJobIsTyped DEF TerminalInv, JobsOK, ReleasesOK, PendingStates, CloseHoldsTerminal
<1> QED
  BY <1>1, TerminalAlways, PTL

(* A row says 'released' only when its process is gone.                     *)
THEOREM ReleaseIsConfirmed == Spec => []ReleasedMeansGone
<1>1. TerminalInv => ReleasedMeansGone
  BY DEF TerminalInv, ReleasesOK, ReleasedMeansGone
<1> QED
  BY <1>1, TerminalAlways, PTL

-----------------------------------------------------------------------------
(* The user's decision *)

Stands(r) ==
  \/ UserDecided(r)' /\ (row[r].own = "user_owned" => row'[r].own = "user_owned")
  \/ row'[r].rel = "released" /\ Gone(row[r].seat)
  \/ row[r].own = "owned" /\ row'[r].rel = "not_requested" /\ row'[r].owner # row[r].owner
  \/ row[r].own = "owned" /\ row'[r].rel = "requested" /\ row[r].owner = row'[r].owner

LEMMA SameStands ==
  ASSUME NEW r, UserDecided(r), row'[r] = row[r]
  PROVE  Stands(r)
BY DEF UserDecided, Stands

(* A completion leaves a terminal that is kept alone, at every step.        *)
LEMMA CompletionSpares ==
  ASSUME TerminalInv, NEW j \in jobs, Inspected(j) \/ Captured(j) \/ Closed(j),
         NEW r \in Rows, row[r].rel = "retained"
  PROVE  row'[r] = row[r]
<1>1. Types /\ j.row \in Rows /\ r \in Dispatches
  BY AJobIsTyped DEF TerminalInv, Rows
<1>2. CASE j.row = r
  <2>1. Revert(j.row) \/ MarkUnknown(j.row) \/ SettleRelease(j.row) => row' = row
    BY <1>2 DEF Revert, MarkUnknown, SettleRelease, PendingStates
  <2>2. CommitAndClose(j) => row' = row
    BY <1>2 DEF CommitAndClose, Commits
  <2> QED
    BY <2>1, <2>2 DEF Inspected, Captured, Closed
<1>3. CASE j.row # r
  <2>1. \A rel, why : SetRelease(j.row, rel, why) => row'[r] = row[r]
    BY <1>1, <1>3 DEF SetRelease, Types
  <2>2. Revert(j.row) \/ MarkUnknown(j.row) => row'[r] = row[r]
    BY <2>1 DEF Revert, MarkUnknown
  <2>3. SettleRelease(j.row) => row'[r] = row[r]
    BY <1>1, <1>3 DEF SettleRelease, Types
  <2>4. CommitAndClose(j) => row'[r] = row[r]
    BY <2>1 DEF CommitAndClose
  <2> QED
    BY <2>2, <2>3, <2>4 DEF Inspected, Captured, Closed
<1> QED
  BY <1>2, <1>3

(* Only a terminal that is owned is handed to another worker, which was not *)
(* its owner.                                                               *)
LEMMA StartStands ==
  ASSUME TerminalInv, NEW d \in Dispatches, NEW t \in Terminals,
         StartInNew(d, t) \/ StartInExisting(d, t),
         NEW r \in Rows, UserDecided(r)
  PROVE  Stands(r)
<1>1. /\ Types /\ r \in Dispatches /\ r # d /\ row[r].owner # d /\ row[r] \in RowType
  BY ARowIsTyped DEF TerminalInv, OwnersOK, StartInNew, StartInExisting, Rows
<1>2. CASE row'[r] = row[r]
  BY <1>2, SameStands
<1>3. CASE row'[r] # row[r]
  <2>1. PICK q \in Transferable(Seat(t)) :
          row' = [row EXCEPT ![q] = [NewRow(d, Seat(t), "owned") EXCEPT
                                       !.prior = row[q].prior \cup {row[q].owner}]]
    BY <1>1, <1>3 DEF StartInNew, StartInExisting, Types
  <2>2. PICK to : to = [NewRow(d, Seat(t), "owned") EXCEPT !.prior = row[q].prior \cup {row[q].owner}]
    OBVIOUS
  <2>3. to.rel = "not_requested" /\ to.owner = d
    BY <2>2 DEF NewRow
  <2>4. row' = [row EXCEPT ![q] = to]
    BY <2>1, <2>2
  <2>5. q = r /\ row'[r] = to
    BY <1>1, <1>3, <2>4 DEF Types
  <2>6. row[r].own = "owned"
    BY <2>5 DEF Transferable
  <2> QED
    BY <1>1, <2>3, <2>5, <2>6 DEF Stands
<1> QED
  BY <1>2, <1>3

LEMMA ReleaseStands ==
  ASSUME TerminalInv, NEW d \in Dispatches, WorkerRelease(d), NEW r \in Rows, UserDecided(r)
  PROVE  Stands(r)
<1>1. Types /\ row[r].rel = "retained"
  BY DEF TerminalInv, UserDecided
<1>2. CASE row'[r] = row[r]
  BY <1>2, SameStands
<1>3. CASE row'[r] # row[r]
  <2>1. PICK q \in RowsOwnedBy(d) : Releasable(d, q) /\ RequestRelease(d, q)
    BY <1>3 DEF WorkerRelease, AwaitVerdict
  <2>2. q \in Rows /\ row[q].own = "owned" /\ SetRelease(q, NextRequest(row[q].rel), "none")
    BY <2>1 DEF RowsOwnedBy, Releasable, RequestRelease
  <2>3. NextRequest(row[q].rel) \in ReleaseStates /\ "none" \in Reasons
    BY DEF NextRequest, ReleaseStates, Reasons
  <2>4. /\ row'[q].owner = row[q].owner /\ row'[q].rel = NextRequest(row[q].rel)
        /\ \A p \in Rows : p # q => row'[p] = row[p]
    BY <1>1, <2>2, <2>3, SetReleaseRow
  <2>5. q = r /\ row'[r].rel = "requested"
    BY <1>1, <1>3, <2>4 DEF NextRequest
  <2> QED
    BY <2>2, <2>4, <2>5 DEF Stands
<1> QED
  BY <1>2, <1>3

LEMMA VerdictStands ==
  ASSUME TerminalInv, NEW d \in Dispatches, NEW q \in Dispatches, Verdict(d, q),
         NEW r \in Rows, UserDecided(r)
  PROVE  Stands(r)
<1>1. Types /\ q \in Rows
  BY DEF TerminalInv, Verdict, Types, TypeOK
<1>2. CASE row'[r] = row[r]
  BY <1>2, SameStands
<1>3. CASE row'[r] # row[r]
  <2>1. /\ Gone(row[q].seat) /\ "none" \in Reasons
        /\ row' = [row EXCEPT ![q].rel = "released", ![q].own = "released", ![q].why = "none"]
    BY <1>3 DEF Verdict, Reasons
  <2>2. row'[q].rel = "released" /\ \A p \in Rows : p # q => row'[p] = row[p]
    BY <1>1, <2>1, SettledRow
  <2>3. q = r
    BY <1>3, <2>2
  <2> QED
    BY <2>1, <2>2, <2>3 DEF Stands
<1> QED
  BY <1>2, <1>3

LEMMA RetainStands ==
  ASSUME TerminalInv, NEW d \in Dispatches, WorkerRetain(d), NEW r \in Rows, UserDecided(r)
  PROVE  Stands(r)
<1>1. Types
  BY DEF TerminalInv
<1>2. CASE row'[r] = row[r]
  BY <1>2, SameStands
<1>3. CASE row'[r] # row[r]
  <2>1. PICK q \in RowsOwnedBy(d) : SetRelease(q, "retained", "user_requested")
    BY DEF WorkerRetain
  <2>2. q \in Rows /\ "retained" \in ReleaseStates /\ "user_requested" \in Reasons
    BY DEF RowsOwnedBy, ReleaseStates, Reasons
  <2>3. /\ row'[q].own = row[q].own /\ row'[q].rel = "retained" /\ row'[q].why = "user_requested"
        /\ \A p \in Rows : p # q => row'[p] = row[p]
    BY <1>1, <2>1, <2>2, SetReleaseRow
  <2>4. q = r
    BY <1>3, <2>3
  <2> QED
    BY <2>3, <2>4 DEF Stands, UserDecided
<1> QED
  BY <1>2, <1>3

LEMMA InputStands ==
  ASSUME TerminalInv, NEW t \in Terminals, UserInput(t), NEW r \in Rows, UserDecided(r)
  PROVE  Stands(r)
<1>1. r \in Dispatches /\ row[r] \in RowType
  BY ARowIsTyped DEF TerminalInv, Rows
<1>2. CASE r \notin Taken(t)
  BY <1>1, <1>2, SameStands DEF UserInput
<1>3. CASE r \in Taken(t)
  <2>1. PICK to : to = [row[r] EXCEPT !.own = "user_owned", !.rel = "retained", !.why = "user_takeover"]
    OBVIOUS
  <2>2. to.own = "user_owned" /\ to.rel = "retained" /\ to.why = "user_takeover"
    BY <1>1, <2>1 DEF RowType
  <2>3. row'[r] = to
    BY <1>1, <1>3, <2>1 DEF UserInput
  <2> QED
    BY <2>2, <2>3 DEF Stands, UserDecided
<1> QED
  BY <1>2, <1>3

LEMMA DecisionStep ==
  ASSUME TerminalInv, [Next]_vars, NEW r \in Rows, UserDecided(r)
  PROVE  Stands(r)
<1>1. CASE Next
  <2>1. ASSUME NEW d \in Dispatches,
               \/ FinishStart(d) \/ Report(d) \/ Abandon(d)
               \/ BeginStop(d) \/ StopInspected(d) \/ StopReturns(d)
        PROVE  Stands(r)
    BY <2>1, WorkerStepTypes, SameStands DEF TerminalInv
  <2>2. ASSUME NEW d \in Dispatches, WorkerRelease(d) \/ WorkerRetain(d)
        PROVE  Stands(r)
    BY <2>2, ReleaseStands, RetainStands
  <2>3. ASSUME NEW d \in Dispatches, NEW t \in Terminals, StartInNew(d, t) \/ StartInExisting(d, t)
        PROVE  Stands(r)
    BY <2>3, StartStands
  <2>4. ASSUME NEW d \in Dispatches, NEW q \in Dispatches, Verdict(d, q)
        PROVE  Stands(r)
    BY <2>4, VerdictStands
  <2>5. ASSUME NEW j \in jobs, Inspected(j) \/ Captured(j) \/ Closed(j)
        PROVE  Stands(r)
    BY <2>5, CompletionSpares, SameStands DEF UserDecided
  <2>6. ASSUME NEW t \in Terminals, UserInput(t)
        PROVE  Stands(r)
    BY <2>6, InputStands
  <2>7. ASSUME NEW t \in Terminals,
               \/ Inject(t) \/ EndInjected(t) \/ UserSpawn(t) \/ ProcessEnds(t) \/ ExitSeen(t)
               \/ LoseContact(t)
        PROVE  Stands(r)
    BY <2>7, PaneStepTypes, SameStands DEF TerminalInv
  <2>8. ASSUME NEW ts, NEW missing, Discover(ts, missing)
        PROVE  Stands(r)
    BY <2>8, SameStands DEF Discover
  <2>9. CASE PassResumes \/ Restart
    BY <2>9, SameStands DEF PassResumes, Restart, dbVars
  <2> QED
    BY <1>1, <2>1, <2>2, <2>3, <2>4, <2>5, <2>6, <2>7, <2>8, <2>9 DEF Next
<1>2. CASE UNCHANGED vars
  BY <1>2, SameStands DEF vars, dbVars
<1> QED
  BY <1>1, <1>2

(* What the user decided about a terminal stands: no completion or recovery *)
(* pass, however old the snapshot it works from, takes it back.             *)
THEOREM DecisionKept == Spec => UserDecisionStands
<1>1. TerminalInv /\ [Next]_vars
        => [\A r \in Rows : UserDecided(r) =>
              \/ UserDecided(r)' /\ (row[r].own = "user_owned" => row'[r].own = "user_owned")
              \/ row'[r].rel = "released" /\ Gone(row[r].seat)
              \/ row[r].own = "owned" /\ row'[r].rel = "not_requested" /\ row'[r].owner # row[r].owner
              \/ row[r].own = "owned" /\ row'[r].rel = "requested"
                   /\ row[r].owner = row'[r].owner]_vars
  BY DecisionStep DEF Stands
<1> QED
  BY <1>1, TerminalAlways, PTL DEF Spec, UserDecisionStands
==============================================================================
