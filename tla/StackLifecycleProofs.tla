------------------------ MODULE StackLifecycleProofs ------------------------
(* The launcher's ownership record, for any processes, sources and ports.     *)
EXTENDS StackLifecycle, TLAPS, FiniteSetTheorems

----------------------------------------------------------------------------
(* The inductive invariant *)

Commands ==
  [op : Ops \cup {"none"},
   pc : {"idle", "render", "write", "ensure", "activate", "done", "check", "plan", "spawn",
         "save", "wait", "final", "rollback", "stop", "term"},
   comp : Components, src : Sources \cup {None}, gen : Sources \cup {None},
   mem : [Components -> Owned \cup {None}], started : SUBSET Components]

\* Two components never share a process.
Distinct(m) ==
  m["hubu"] # None /\ m["gongbu"] # None => m["hubu"].p # m["gongbu"].p

Types ==
  /\ source \in Sources
  /\ active \in Sources \cup {None}
  /\ staged \in [Sources -> {"none", "partial", "complete"}]
  /\ record \in [Components -> Owned \cup {None}]
  /\ proc \in [Procs -> [status : Alive \cup {"dead", "reused"}, comp : Components,
                         gen : Sources \cup {None}, exec : BOOLEAN]]
  /\ external \in [Components -> BOOLEAN]
  /\ cmd \in Commands
  /\ orphaned \in BOOLEAN
  /\ Distinct(record) /\ Distinct(cmd.mem)

\* The generation a command has found or written is whole when it is activated,
\* and start works on the active one.
Generations ==
  /\ active # None => staged[active] = "complete"
  /\ cmd.pc = "write" => cmd.gen \in Sources /\ cmd.gen # active
  /\ cmd.pc \in {"ensure", "activate"} => cmd.gen \in Sources /\ staged[cmd.gen] = "complete"
  /\ cmd.pc = "plan" => active # None
  /\ cmd.pc \in {"spawn", "save", "wait", "final", "rollback"} => active # None /\ cmd.gen = active
  /\ cmd.pc \in {"spawn", "save", "wait", "final"} => cmd.src \in Sources

\* What the command remembers of the record, at each point of it.
Memory ==
  /\ cmd.pc = "idle" => cmd = Idle
  /\ cmd.pc \in {"idle", "render", "write", "ensure", "activate", "check", "plan"}
       => cmd.mem = NoOwned /\ cmd.started = {}
  /\ cmd.pc \in {"stop", "term"} =>
       cmd.mem = record /\ cmd.started = {} /\ cmd.op \in {"stop", "forget"}
  /\ cmd.pc = "done" => cmd.mem \in {NoOwned, record} /\ cmd.started = {}
  /\ cmd.pc = "activate" => record = NoOwned
  /\ cmd.pc \in {"spawn", "wait", "final"} => cmd.mem = record
  /\ cmd.pc = "save" =>
       /\ record[cmd.comp] = None
       /\ \A c \in Components \ {cmd.comp} : cmd.mem[c] = record[c]
  /\ cmd.pc \in {"save", "wait"} => cmd.comp \in cmd.started
  /\ cmd.pc = "term" => cmd.mem[cmd.comp] # None
  /\ \A c \in cmd.started : cmd.mem[c] # None
  /\ cmd.pc = "rollback" => \A c \in Components \ cmd.started :
                              cmd.mem[c] # None => cmd.mem[c] = record[c]

\* Who answers for a live server: a start that runs, or else the record.
Answerable(p) == IF cmd.pc \in {"save", "rollback"} THEN p \in Tracked(cmd.mem) ELSE p \in Tracked(record)

AllAnswerable == orphaned \/ \A p \in Procs : proc[p].status \in Alive => Answerable(p)

StackInv == Types /\ Generations /\ Memory /\ OwnedRunsActive /\ AllAnswerable

----------------------------------------------------------------------------
(* Commands as records *)

\* A blank command remembers nothing.
LEMMA IdleFields ==
  /\ Idle \in Commands
  /\ Idle.op = "none" /\ Idle.pc = "idle" /\ Idle.mem = NoOwned /\ Idle.started = {}
  /\ Distinct(NoOwned)
<1>1. NoOwned \in [Components -> Owned \cup {None}]
  BY DEF NoOwned
<1>2. Distinct(NoOwned)
  BY DEF NoOwned, Distinct, Components
<1> QED BY <1>1, <1>2 DEF Idle, Commands, Components

\* The fields of a command.
LEMMA CommandFields ==
  ASSUME NEW k \in Commands
  PROVE  /\ k.op \in Ops \cup {"none"} /\ k.comp \in Components
         /\ k.src \in Sources \cup {None} /\ k.gen \in Sources \cup {None}
         /\ k.mem \in [Components -> Owned \cup {None}] /\ k.started \in SUBSET Components
BY DEF Commands

\* A command that goes on remembers what it did.
LEMMA GotoFields ==
  ASSUME NEW k \in Commands, NEW pc, NEW new, new = [k EXCEPT !.pc = pc]
  PROVE  /\ new.op = k.op /\ new.pc = pc /\ new.comp = k.comp /\ new.src = k.src
         /\ new.gen = k.gen /\ new.mem = k.mem /\ new.started = k.started
BY DEF Commands

\* What it may go on to
Places == {"idle", "render", "write", "ensure", "activate", "done", "check", "plan", "spawn",
           "save", "wait", "final", "rollback", "stop", "term"}

\* A command that goes on to a known place is a command.
LEMMA GotoType ==
  ASSUME NEW k \in Commands, NEW pc \in Places, NEW new, new = [k EXCEPT !.pc = pc]
  PROVE  new \in Commands
BY DEF Commands, Places

\* A process the record names has a place in the table.
LEMMA TrackedMember ==
  ASSUME NEW m \in [Components -> Owned \cup {None}], NEW c \in Components, m[c] # None
  PROVE  m[c] \in Owned /\ m[c].p \in Procs /\ m[c].p \in Tracked(m)
BY DEF Owned, Tracked

\* Nothing is tracked by a record that names nothing.
LEMMA TrackedNone == Tracked(NoOwned) = {}
BY DEF Tracked, NoOwned

----------------------------------------------------------------------------
(* Steps that change neither a process nor the record *)

\* The running command is done with, or fails where it had recorded all.
LEMMA EndStep ==
  ASSUME StackInv, cmd' = Idle, UNCHANGED <<source, active, record, proc, external, orphaned>>,
         staged' \in [Sources -> {"none", "partial", "complete"}],
         active # None => staged'[active] = "complete",
         cmd.pc \notin {"save", "rollback"}
  PROVE  StackInv'
<1> USE IdleFields DEF StackInv
<1>1. Types'
  BY DEF Types
<1>2. Generations'
  BY DEF Generations
<1>3. Memory'
  BY DEF Memory
<1>4. OwnedRunsActive'
  BY TrackedNone DEF OwnedRunsActive
<1>5. AllAnswerable'
  BY DEF AllAnswerable, Answerable
<1> QED BY <1>1, <1>2, <1>3, <1>4, <1>5

\* A command takes the lifecycle lock.
LEMMA AcquireStep ==
  ASSUME StackInv, NEW op \in Ops, acquire_lifecycle_lock(op)
  PROVE  StackInv'
<1> USE IdleFields DEF StackInv
<1>0. /\ cmd = Idle /\ UNCHANGED <<source, active, staged, record, proc, external, orphaned>>
      /\ cmd' \in Commands
      /\ cmd'.started = {}
      /\ \/ cmd'.pc = "stop" /\ cmd'.mem = record /\ cmd'.op \in {"stop", "forget"}
         \/ cmd'.pc = "render" /\ cmd'.mem = NoOwned
  BY DEF acquire_lifecycle_lock, config, Idle, Types, Commands, Ops, Components
<1>1. Types'
  BY <1>0 DEF Types
<1>2. Generations'
  BY <1>0 DEF Generations
<1>3. Memory'
  BY <1>0 DEF Memory
<1>4. OwnedRunsActive'
  BY <1>0, TrackedNone DEF OwnedRunsActive
<1>5. AllAnswerable'
  BY <1>0 DEF AllAnswerable, Answerable
<1> QED BY <1>1, <1>2, <1>3, <1>4, <1>5

\* A command goes on, with what it remembers.
LEMMA GotoStep ==
  ASSUME StackInv, NEW pc \in Places, cmd' = [cmd EXCEPT !.pc = pc],
         UNCHANGED <<source, active, record, proc, external, orphaned>>,
         staged' \in [Sources -> {"none", "partial", "complete"}],
         Generations', Memory', AllAnswerable'
  PROVE  StackInv'
<1>1. /\ cmd' \in Commands /\ cmd'.mem = cmd.mem
  BY GotoType, GotoFields DEF StackInv, Types
<1>2. Types'
  BY <1>1 DEF Types, StackInv
<1>3. OwnedRunsActive'
  BY <1>1 DEF OwnedRunsActive, StackInv
<1> QED BY <1>2, <1>3 DEF StackInv

\* Rendering keeps what is whole and begins what is not.
LEMMA RenderProfileStep ==
  ASSUME StackInv, render_profile
  PROVE  StackInv'
<1> DEFINE whole == active = source \/ staged[source] = "complete"
           next == IF active = source THEN WhenActive ELSE WhenStaged
<1>0. /\ UNCHANGED <<source, active, record, proc, external, orphaned>>
      /\ cmd \in Commands /\ cmd.pc = "render" /\ cmd.mem = NoOwned /\ cmd.started = {}
      /\ source \in Sources /\ staged \in [Sources -> {"none", "partial", "complete"}]
      /\ active # None => staged[active] = "complete"
  BY DEF StackInv, Types, Generations, Memory, render_profile, At
<1>1. next \in {"check", "ensure", "done"} /\ (next = "check" => active = source)
  BY DEF WhenActive, WhenStaged
<1>2. /\ cmd' \in Commands /\ cmd'.mem = NoOwned /\ cmd'.started = {} /\ cmd'.gen = source
      /\ \/ whole /\ staged' = staged /\ cmd'.pc = next
         \/ ~whole /\ staged' = [staged EXCEPT ![source] = "partial"] /\ cmd'.pc = "write"
  <2>1. CASE whole
    <3>1. cmd' = [cmd EXCEPT !.gen = source, !.pc = next] /\ staged' = staged
      BY <2>1 DEF render_profile
    <3> HIDE DEF next, whole
    <3> QED BY <1>0, <1>1, <2>1, <3>1 DEF Commands
  <2>2. CASE ~whole
    <3>1. cmd' = [cmd EXCEPT !.gen = source, !.pc = "write"]
          /\ staged' = [staged EXCEPT ![source] = "partial"]
      BY <2>2 DEF render_profile
    <3> HIDE DEF next, whole
    <3> QED BY <1>0, <2>2, <3>1 DEF Commands
  <2> QED BY <2>1, <2>2
<1>3. staged' \in [Sources -> {"none", "partial", "complete"}]
  BY <1>0, <1>2
<1>4. Types'
  BY <1>0, <1>2, <1>3, IdleFields DEF StackInv, Types
<1>5. Generations'
  <2>1. CASE whole /\ staged' = staged /\ cmd'.pc = next
    <3>1. staged'[source] = "complete"
      BY <1>0, <2>1, StackAssumption
    <3> HIDE DEF next, whole
    <3> QED BY <1>0, <1>1, <1>2, <2>1, <3>1 DEF Generations
  <2>2. CASE ~whole /\ staged' = [staged EXCEPT ![source] = "partial"] /\ cmd'.pc = "write"
    <3>1. active # source /\ (active # None => staged'[active] = "complete")
      BY <1>0, <2>2 DEF StackInv, Types
    <3> HIDE DEF next, whole
    <3> QED BY <1>0, <1>2, <2>2, <3>1 DEF Generations
  <2> QED BY <1>2, <2>1, <2>2
<1> HIDE DEF next, whole
<1>6. Memory'
  BY <1>0, <1>1, <1>2 DEF Memory
<1>7. OwnedRunsActive'
  BY <1>0, <1>2 DEF StackInv, OwnedRunsActive
<1>8. AllAnswerable'
  BY <1>0, <1>1, <1>2 DEF StackInv, AllAnswerable, Answerable
<1> QED BY <1>4, <1>5, <1>6, <1>7, <1>8 DEF StackInv

\* A generation is written whole, or removed; never the active one.
LEMMA RenderGenerationStep ==
  ASSUME StackInv, NEW ok \in BOOLEAN, render_generation(ok)
  PROVE  StackInv'
<1> DEFINE next == IF active = None THEN "ensure" ELSE WhenStaged
<1>0. /\ UNCHANGED <<source, active, record, proc, external, orphaned>>
      /\ cmd \in Commands /\ cmd.pc = "write" /\ cmd.mem = NoOwned /\ cmd.started = {}
      /\ cmd.gen \in Sources /\ cmd.gen # active /\ active \in Sources \cup {None}
      /\ staged \in [Sources -> {"none", "partial", "complete"}]
      /\ active # None => staged[active] = "complete"
  BY DEF StackInv, Types, Generations, Memory, render_generation, At
<1>1. next \in {"ensure", "done"}
  BY DEF WhenStaged
<1>2. /\ staged' \in [Sources -> {"none", "partial", "complete"}]
      /\ active # None => staged'[active] = "complete"
      /\ ok => staged'[cmd.gen] = "complete"
  BY <1>0 DEF render_generation
<1>3. CASE ~ok
  BY <1>0, <1>2, <1>3, EndStep DEF render_generation, End
<1>4. CASE ok
  <2>1. cmd' = [cmd EXCEPT !.pc = next]
    BY <1>4 DEF render_generation, Goto
  <2> HIDE DEF next
  <2>2. /\ cmd'.pc = next /\ cmd'.gen = cmd.gen /\ cmd'.mem = NoOwned /\ cmd'.started = {}
    BY <1>0, <2>1, GotoFields
  <2>3. Generations'
    BY <1>0, <1>1, <1>2, <1>4, <2>2 DEF Generations
  <2>4. Memory'
    BY <1>0, <1>1, <2>2 DEF Memory
  <2>5. AllAnswerable'
    BY <1>0, <1>1, <2>2 DEF StackInv, AllAnswerable, Answerable
  <2>6. next \in Places
    BY <1>1 DEF Places
  <2> QED BY <1>0, <1>2, <2>1, <2>3, <2>4, <2>5, <2>6, GotoStep
<1> QED BY <1>3, <1>4

\* A generation is activated only when nothing is recorded.
LEMMA ActivateStep ==
  ASSUME StackInv, EnsureStopped \/ activate_manifest \/ Done \/ CheckStartable
  PROVE  StackInv'
<1>0. /\ cmd \in Commands /\ cmd.started \in SUBSET Components
      /\ staged \in [Sources -> {"none", "partial", "complete"}]
      /\ active # None => staged[active] = "complete"
      /\ source \in Sources
  BY CommandFields DEF StackInv, Types, Generations
<1>1. ASSUME cmd.pc \notin {"save", "rollback"}, cmd' = Idle,
             UNCHANGED <<config, record, proc, external, orphaned>>
      PROVE  StackInv'
  BY <1>0, <1>1, EndStep DEF config
<1>2. CASE EnsureStopped
  <2>1. CASE ensure_profile_stopped
    <3>1. /\ cmd' = [cmd EXCEPT !.pc = "activate"] /\ record = NoOwned /\ cmd.pc = "ensure"
          /\ UNCHANGED <<source, active, staged, record, proc, external, orphaned>>
      BY <1>2, <2>1 DEF EnsureStopped, ensure_profile_stopped, Goto, At, config
    <3>2. /\ cmd'.pc = "activate" /\ cmd'.gen = cmd.gen /\ cmd'.mem = cmd.mem
          /\ cmd'.started = cmd.started
      BY <1>0, <3>1, GotoFields
    <3>3. Generations'
      BY <3>1, <3>2 DEF StackInv, Generations
    <3>4. Memory'
      BY <3>1, <3>2 DEF StackInv, Memory
    <3>5. AllAnswerable'
      BY <3>1, <3>2 DEF StackInv, AllAnswerable, Answerable
    <3> QED BY <1>0, <3>1, <3>3, <3>4, <3>5, GotoStep DEF Places
  <2>2. CASE ~ensure_profile_stopped
    BY <1>1, <1>2, <2>2 DEF EnsureStopped, End, At
  <2> QED BY <2>1, <2>2
<1>3. CASE activate_manifest
  <2>1. /\ active' = cmd.gen /\ cmd.pc = "activate" /\ cmd.mem = NoOwned /\ cmd.started = {}
        /\ UNCHANGED <<source, staged, record, proc, external, orphaned>>
        /\ record = NoOwned /\ cmd.gen \in Sources /\ staged[cmd.gen] = "complete"
    BY <1>3 DEF activate_manifest, At, StackInv, Memory, Generations
  <2>2. /\ cmd' \in Commands /\ cmd'.mem = NoOwned /\ cmd'.started = {}
        /\ cmd' = Idle \/ cmd'.pc = "check"
    <3>1. cmd' = Idle \/ cmd' = [cmd EXCEPT !.pc = "check"]
      BY <1>3 DEF activate_manifest, Goto, End
    <3>2. CASE cmd' = Idle
      BY <3>2, IdleFields
    <3>3. CASE cmd' = [cmd EXCEPT !.pc = "check"]
      BY <1>0, <2>1, <3>3, GotoFields, GotoType DEF Places
    <3> QED BY <3>1, <3>2, <3>3
  <2>3. cmd'.pc \in {"idle", "check"}
    BY <2>2, IdleFields
  <2>4. Types'
    BY <2>1, <2>2, IdleFields DEF StackInv, Types
  <2>5. Generations'
    BY <2>1, <2>3 DEF Generations
  <2>6. Memory'
    BY <2>1, <2>2, <2>3 DEF Memory
  <2>7. OwnedRunsActive'
    BY <2>1, <2>2, TrackedNone DEF OwnedRunsActive
  <2>8. AllAnswerable'
    BY <2>1, <2>3 DEF StackInv, AllAnswerable, Answerable
  <2> QED BY <2>4, <2>5, <2>6, <2>7, <2>8 DEF StackInv
<1>4. CASE Done
  BY <1>1, <1>4 DEF Done, End, At
<1>5. CASE CheckStartable
  <2>1. CASE inspect_active_generation
    <3>1. /\ cmd' = [cmd EXCEPT !.pc = "plan"] /\ active = source /\ cmd.pc = "check"
          /\ UNCHANGED <<source, active, staged, record, proc, external, orphaned>>
      BY <1>5, <2>1 DEF CheckStartable, inspect_active_generation, Goto, At, config
    <3>2. /\ cmd'.pc = "plan" /\ cmd'.gen = cmd.gen /\ cmd'.mem = cmd.mem
          /\ cmd'.started = cmd.started
      BY <1>0, <3>1, GotoFields
    <3>3. Generations'
      BY <1>0, <3>1, <3>2, StackAssumption DEF StackInv, Generations
    <3>4. Memory'
      BY <3>1, <3>2 DEF StackInv, Memory
    <3>5. AllAnswerable'
      BY <3>1, <3>2 DEF StackInv, AllAnswerable, Answerable
    <3> QED BY <1>0, <3>1, <3>3, <3>4, <3>5, GotoStep DEF Places
  <2>2. CASE ~inspect_active_generation
    BY <1>1, <1>5, <2>2 DEF CheckStartable, End, At
  <2> QED BY <2>1, <2>2
<1> QED BY <1>2, <1>3, <1>4, <1>5

\* start remembers the record it found and the active generation.
LEMMA StartStep ==
  ASSUME StackInv, NEW blind, start_profile(blind)
  PROVE  StackInv'
<1>0. /\ UNCHANGED <<source, active, staged, record, proc, external, orphaned>>
      /\ cmd \in Commands /\ cmd.pc = "plan" /\ cmd.started = {} /\ source \in Sources
      /\ active \in Sources /\ record \in [Components -> Owned \cup {None}]
      /\ staged \in [Sources -> {"none", "partial", "complete"}] /\ staged[active] = "complete"
  BY DEF StackInv, Types, Generations, Memory, start_profile, At, config
<1>1. CASE cmd' = Idle
  BY <1>0, <1>1, EndStep
<1>2. CASE cmd' = [cmd EXCEPT !.pc = "spawn", !.comp = "hubu", !.src = source,
                              !.gen = active, !.mem = record]
  <2>1. /\ cmd' \in Commands /\ cmd'.pc = "spawn" /\ cmd'.src = source /\ cmd'.gen = active
        /\ cmd'.mem = record /\ cmd'.started = {}
    BY <1>0, <1>2 DEF Commands, Components
  <2>2. Types'
    BY <1>0, <2>1 DEF StackInv, Types
  <2>3. Generations'
    BY <1>0, <2>1, StackAssumption DEF Generations
  <2>4. Memory'
    BY <1>0, <2>1 DEF Memory
  <2>5. OwnedRunsActive'
    BY <1>0, <2>1 DEF StackInv, OwnedRunsActive
  <2>6. AllAnswerable'
    BY <1>0, <2>1 DEF StackInv, AllAnswerable, Answerable
  <2> QED BY <2>2, <2>3, <2>4, <2>5, <2>6 DEF StackInv
<1> QED BY <1>1, <1>2 DEF start_profile, End

\* start gives up and rolls back what it started.
LEMMA GiveUpStep ==
  ASSUME StackInv, cmd.pc \in {"spawn", "save", "wait", "final"},
         cmd' = [cmd EXCEPT !.pc = "rollback"],
         UNCHANGED <<source, active, staged, record, proc, external, orphaned>>
  PROVE  StackInv'
<1>0. cmd \in Commands /\ staged \in [Sources -> {"none", "partial", "complete"}]
  BY DEF StackInv, Types
<1>1. /\ cmd'.pc = "rollback" /\ cmd'.gen = cmd.gen /\ cmd'.mem = cmd.mem
      /\ cmd'.started = cmd.started /\ cmd'.comp = cmd.comp
  BY <1>0, GotoFields
<1>2. Generations'
  BY <1>1 DEF StackInv, Generations
<1>3. Memory'
  BY <1>1 DEF StackInv, Memory
<1>4. AllAnswerable'
  BY <1>1 DEF StackInv, Memory, AllAnswerable, Answerable
<1> QED BY <1>0, <1>2, <1>3, <1>4, GotoStep DEF Places

\* Timeouts, the last report and errors end a command or make it roll back.
LEMMA FailureStep ==
  ASSUME StackInv, NEW early \in BOOLEAN, WaitTimesOut(early) \/ FinalReport \/ Error
  PROVE  StackInv'
<1>0. /\ cmd \in Commands /\ staged \in [Sources -> {"none", "partial", "complete"}]
      /\ active # None => staged[active] = "complete"
      /\ UNCHANGED <<source, active, staged, record, proc, external, orphaned>>
  BY DEF StackInv, Types, Generations, WaitTimesOut, FinalReport, Error, config
<1>1. \/ cmd.pc \in {"spawn", "save", "wait", "final"} /\ cmd' = [cmd EXCEPT !.pc = "rollback"]
      \/ cmd.pc \notin {"save", "rollback"} /\ cmd' = Idle
  BY DEF WaitTimesOut, FinalReport, Error, Goto, End, At
<1> QED BY <1>0, <1>1, EndStep, GiveUpStep

\* Whoever kills the launcher, a child it has not recorded counts as orphaned.
LEMMA KilledStep ==
  ASSUME StackInv, Killed
  PROVE  StackInv'
<1>0. /\ cmd' = Idle /\ UNCHANGED <<source, active, staged, record, proc, external>>
      /\ orphaned' = (\/ orphaned
                      \/ \E c \in cmd.started : /\ record[c] # cmd.mem[c]
                                               /\ proc[cmd.mem[c].p].status \in Alive)
      /\ cmd \in Commands /\ cmd.started \in SUBSET Components
      /\ cmd.mem \in [Components -> Owned \cup {None}]
      /\ record \in [Components -> Owned \cup {None}]
  BY CommandFields DEF StackInv, Types, Killed, End, config
<1> USE IdleFields
<1>1. Types'
  BY <1>0 DEF StackInv, Types
<1>2. Generations'
  BY <1>0 DEF StackInv, Generations
<1>3. Memory'
  BY <1>0 DEF Memory
<1>4. OwnedRunsActive'
  BY <1>0, TrackedNone DEF StackInv, OwnedRunsActive
<1>5. AllAnswerable'
  <2> SUFFICES ASSUME ~orphaned', NEW p \in Procs, proc[p].status \in Alive
               PROVE  p \in Tracked(record)
    BY <1>0 DEF AllAnswerable, Answerable
  <2>1. ~orphaned /\ \A c \in cmd.started : record[c] # cmd.mem[c]
                                              => proc[cmd.mem[c].p].status \notin Alive
    BY <1>0
  <2>2. CASE cmd.pc \notin {"save", "rollback"}
    BY <2>1, <2>2 DEF StackInv, AllAnswerable, Answerable
  <2>3. CASE cmd.pc \in {"save", "rollback"}
    <3>1. p \in Tracked(cmd.mem)
      BY <2>1, <2>3 DEF StackInv, AllAnswerable, Answerable
    <3>2. PICK c \in Components : cmd.mem[c] # None /\ cmd.mem[c].p = p
      BY <3>1 DEF Tracked
    <3>3. record[c] = cmd.mem[c]
      BY <2>1, <2>3, <3>2 DEF StackInv, Memory
    <3> QED BY <1>0, <3>2, <3>3, TrackedMember
  <2> QED BY <2>2, <2>3
<1> QED BY <1>1, <1>2, <1>3, <1>4, <1>5 DEF StackInv

\* The operator's edits and external components touch nothing the launcher owns.
LEMMA SurroundingsStep ==
  ASSUME StackInv, EditSource \/ ExternalChanges
  PROVE  StackInv'
<1>0. /\ UNCHANGED <<active, staged, record, proc, cmd, orphaned>>
      /\ source' \in Sources /\ external' \in [Components -> BOOLEAN]
  BY DEF EditSource, ExternalChanges, config, StackInv, Types
<1>1. Types'
  BY <1>0 DEF StackInv, Types
<1>2. Generations'
  BY <1>0 DEF StackInv, Generations
<1>3. Memory'
  BY <1>0 DEF StackInv, Memory
<1>4. OwnedRunsActive' /\ AllAnswerable'
  BY <1>0 DEF StackInv, OwnedRunsActive, AllAnswerable, Answerable
<1> QED BY <1>1, <1>2, <1>3, <1>4 DEF StackInv

\* A server starts, hangs and exits on its own and keeps its generation.
LEMMA ServerStep ==
  ASSUME StackInv, NEW p \in Procs, Listen(p) \/ Exec(p) \/ Hang(p) \/ Exit(p) \/ Reuse(p)
  PROVE  StackInv'
<1> DEFINE Process == [status : Alive \cup {"dead", "reused"}, comp : Components,
                       gen : Sources \cup {None}, exec : BOOLEAN]
<1>0. proc \in [Procs -> Process] /\ proc[p] \in Process
  BY DEF StackInv, Types
<1>1. NoProcess \in Process /\ NoProcess.status \notin Alive
  BY DEF NoProcess, Alive, Components
<1>2. Stranger \in Process /\ Stranger.status \notin Alive
  BY DEF NoProcess, Stranger, Alive, Components
<1>3. PICK new : Becomes(p, new)
                 /\ \/ new = NoProcess \/ new = Stranger
                    \/ /\ proc[p].status \in Alive
                       /\ \/ new = [proc[p] EXCEPT !.status = "serving"]
                          \/ new = [proc[p] EXCEPT !.status = "hung"]
                          \/ new = [proc[p] EXCEPT !.exec = TRUE]
  BY DEF Listen, Exec, Hang, Exit, Reuse, Alive
<1>4. /\ new \in Process
      /\ new.status \in Alive => proc[p].status \in Alive /\ new.gen = proc[p].gen
  <2>1. CASE new = NoProcess \/ new = Stranger
    BY <1>1, <1>2, <2>1
  <2>2. CASE \/ new = [proc[p] EXCEPT !.status = "serving"]
             \/ new = [proc[p] EXCEPT !.status = "hung"]
             \/ new = [proc[p] EXCEPT !.exec = TRUE]
    BY <1>0, <1>3, <2>1, <2>2 DEF Alive
  <2> QED BY <1>3, <2>1, <2>2
<1>5. /\ proc' = [proc EXCEPT ![p] = new]
      /\ UNCHANGED <<source, active, staged, record, external, cmd, orphaned>>
  BY <1>3 DEF Becomes, config
<1>6. proc' \in [Procs -> Process]
  BY <1>0, <1>4, <1>5
<1>7. \A q \in Procs : proc'[q].status \in Alive => proc[q].status \in Alive /\ proc'[q].gen = proc[q].gen
  BY <1>0, <1>4, <1>5
<1> HIDE DEF Process
<1>8. Types'
  BY <1>5, <1>6 DEF StackInv, Types, Process
<1>9. Generations'
  BY <1>5 DEF StackInv, Generations
<1>10. Memory'
  BY <1>5 DEF StackInv, Memory
<1>11. \A m : m \in [Components -> Owned \cup {None}] => Tracked(m) \subseteq Procs
  BY DEF Tracked, Owned
<1>12. OwnedRunsActive'
  BY <1>5, <1>7, <1>11, CommandFields DEF StackInv, Types, OwnedRunsActive
<1>13. AllAnswerable'
  BY <1>5, <1>7 DEF StackInv, AllAnswerable, Answerable
<1> QED BY <1>8, <1>9, <1>10, <1>12, <1>13 DEF StackInv

----------------------------------------------------------------------------
(* Steps that change a process, the record or what the command remembers *)

\* What a record with one entry replaced tracks.
LEMMA TrackedExcept ==
  ASSUME NEW m \in [Components -> Owned \cup {None}], NEW c \in Components, NEW r, NEW new,
         new = [m EXCEPT ![c] = r]
  PROVE  /\ r = None => Tracked(new) \subseteq Tracked(m)
         /\ r # None => Tracked(new) \subseteq Tracked(m) \cup {r.p} /\ r.p \in Tracked(new)
         /\ \A q \in Tracked(m) : q \in Tracked(new) \/ (m[c] # None /\ q = m[c].p)
BY DEF Tracked

\* What a record tracks depends on its processes only.
LEMMA TrackedSame ==
  ASSUME NEW m, NEW n,
         \A x \in Components : m[x] = None => n[x] = None,
         \A x \in Components : n[x] = None => m[x] = None,
         \A x \in Components : m[x].p = n[x].p
  PROVE  Tracked(m) = Tracked(n)
<1>1. ASSUME NEW q \in Tracked(m) PROVE q \in Tracked(n)
  <2>1. PICK x \in Components : m[x] # None /\ q = m[x].p
    BY <1>1 DEF Tracked
  <2> QED BY <2>1 DEF Tracked
<1>2. ASSUME NEW q \in Tracked(n) PROVE q \in Tracked(m)
  <2>1. PICK x \in Components : n[x] # None /\ q = n[x].p
    BY <1>2 DEF Tracked
  <2> QED BY <2>1 DEF Tracked
<1> QED BY <1>1, <1>2

\* Taking out a component stops tracking its process, and only that.
LEMMA TrackedRemove ==
  ASSUME NEW m, NEW n, NEW c \in Components, n[c] = None,
         \A x \in Components \ {c} : n[x] = m[x]
  PROVE  /\ Tracked(n) \subseteq Tracked(m)
         /\ \A q \in Tracked(m) : q \in Tracked(n) \/ q = m[c].p
<1>1. ASSUME NEW q \in Tracked(n) PROVE q \in Tracked(m)
  <2>1. PICK x \in Components : n[x] # None /\ q = n[x].p
    BY <1>1 DEF Tracked
  <2> QED BY <2>1 DEF Tracked
<1>2. ASSUME NEW q \in Tracked(m) PROVE q \in Tracked(n) \/ q = m[c].p
  <2>1. PICK x \in Components : m[x] # None /\ q = m[x].p
    BY <1>2 DEF Tracked
  <2> QED BY <2>1 DEF Tracked
<1> QED BY <1>1, <1>2

\* The fields of the command that passes to the next component.
LEMMA NextStartFields ==
  ASSUME NEW c \in Components, NEW k \in Commands, NEW new, new = NextStart(c, k)
  PROVE  /\ new \in Commands /\ new.pc \in {"spawn", "final"} /\ new.src = k.src
         /\ new.gen = k.gen /\ new.mem = k.mem /\ new.started = k.started
BY DEF NextStart, Commands, Components

\* The same for stop.
LEMMA NextStopFields ==
  ASSUME NEW c \in Components, NEW k \in Commands, NEW new, new = NextStop(c, k)
  PROVE  /\ new \in Commands /\ new.pc \in {"stop", "done"} /\ new.op = k.op
         /\ new.gen = k.gen /\ new.mem = k.mem /\ new.started = k.started
BY DEF NextStop, Commands, Components

\* A start that passes over a component.
LEMMA PassStep ==
  ASSUME StackInv, cmd.pc = "spawn", cmd' = NextStart(cmd.comp, cmd),
         UNCHANGED <<source, active, staged, record, proc, external, orphaned>>
  PROVE  StackInv'
<1>0. cmd \in Commands /\ cmd.comp \in Components
  BY CommandFields DEF StackInv, Types
<1>1. /\ cmd' \in Commands /\ cmd'.pc \in {"spawn", "final"} /\ cmd'.src = cmd.src
      /\ cmd'.gen = cmd.gen /\ cmd'.mem = cmd.mem /\ cmd'.started = cmd.started
  BY <1>0, NextStartFields
<1>2. Types'
  BY <1>1 DEF StackInv, Types
<1>3. Generations'
  BY <1>1 DEF StackInv, Generations
<1>4. Memory'
  BY <1>1 DEF StackInv, Memory
<1>5. OwnedRunsActive' /\ AllAnswerable'
  BY <1>1 DEF StackInv, OwnedRunsActive, AllAnswerable, Answerable
<1> QED BY <1>2, <1>3, <1>4, <1>5 DEF StackInv

\* A server is started with an identity nobody remembers, from the active
\* generation.
LEMMA SpawnStep ==
  ASSUME StackInv, spawn_component
  PROVE  StackInv'
<1> DEFINE c == cmd.comp
           p == CHOOSE q \in Free : TRUE
           Process == [status : Alive \cup {"dead", "reused"}, comp : Components,
                       gen : Sources \cup {None}, exec : BOOLEAN]
           r == [p |-> p, exec |-> FALSE, gen |-> cmd.gen]
<1>0. /\ UNCHANGED <<source, active, staged, record, external, orphaned>>
      /\ cmd \in Commands /\ cmd.pc = "spawn" /\ c \in Components
      /\ cmd.mem = record /\ cmd.gen = active /\ active \in Sources /\ cmd.src \in Sources
      /\ record \in [Components -> Owned \cup {None}] /\ cmd.started \in SUBSET Components
      /\ proc \in [Procs -> Process]
  BY CommandFields DEF StackInv, Types, Generations, Memory, spawn_component, At, config
<1>1. CASE proc' = proc /\ (cmd' = NextStart(c, cmd) \/ cmd' = [cmd EXCEPT !.pc = "rollback"])
  BY <1>0, <1>1, PassStep, GiveUpStep
<1>2. CASE /\ cmd.mem[c] = None /\ Free # {}
           /\ proc' = [proc EXCEPT ![p] = [status |-> "starting", comp |-> c,
                                           gen |-> cmd.gen, exec |-> FALSE]]
           /\ cmd' = [cmd EXCEPT !.pc = "save", !.mem[c] = r, !.started = @ \cup {c}]
  <2>1. p \in Free
    BY <1>2
  <2>2. p \in Procs /\ proc[p].status \notin Alive /\ p \notin Tracked(record)
    BY <2>1 DEF Free
  <2> HIDE DEF p, c
  <2>3. r \in Owned /\ r.p = p /\ r # None
    <3>1. r \in Owned
      BY <1>0, <2>2 DEF Owned
    <3> QED BY <3>1, StackAssumption
  <2>4. /\ cmd' \in Commands /\ cmd'.pc = "save" /\ cmd'.comp = c /\ cmd'.src = cmd.src
        /\ cmd'.gen = cmd.gen /\ cmd'.started = cmd.started \cup {c}
        /\ cmd'.mem = [cmd.mem EXCEPT ![c] = r]
    <3> DEFINE m == [cmd.mem EXCEPT ![c] = r]
               started == cmd.started \cup {c}
    <3>1. cmd' = [cmd EXCEPT !.pc = "save", !.mem = m, !.started = started]
      BY <1>2
    <3>2. m \in [Components -> Owned \cup {None}] /\ started \in SUBSET Components
      BY <1>0, <2>3 DEF Commands
    <3> HIDE DEF m, started
    <3>3. /\ cmd' \in Commands /\ cmd'.pc = "save" /\ cmd'.comp = cmd.comp /\ cmd'.src = cmd.src
          /\ cmd'.gen = cmd.gen /\ cmd'.started = started /\ cmd'.mem = m
      BY <1>0, <3>1, <3>2 DEF Commands
    <3> QED BY <3>3 DEF m, started, c
  <2>5. /\ cmd'.mem[c] = r
        /\ \A x \in Components \ {c} : cmd'.mem[x] = record[x]
        /\ Tracked(cmd'.mem) \subseteq Tracked(record) \cup {p} /\ p \in Tracked(cmd'.mem)
        /\ \A q \in Tracked(record) : q \in Tracked(cmd'.mem)
    BY <1>0, <1>2, <2>3, <2>4, TrackedExcept
  <2> HIDE DEF r
  <2>6. /\ proc' \in [Procs -> Process]
        /\ proc'[p].gen = active
        /\ \A q \in Procs \ {p} : proc'[q] = proc[q]
    BY <1>0, <1>2, <2>2 DEF Alive
  <2> HIDE DEF Process
  <2>7. Distinct(cmd'.mem)
    <3>1. \A x \in Components \ {c} : record[x] # None => record[x].p # p
      BY <1>0, <2>2, TrackedMember
    <3> QED BY <1>0, <2>3, <2>5, <3>1 DEF Distinct, Components
  <2>8. Types'
    BY <1>0, <2>4, <2>6, <2>7 DEF StackInv, Types, Process
  <2>9. Generations'
    BY <1>0, <2>4, StackAssumption DEF StackInv, Generations
  <2>10. Memory'
    <3>1. record[c] = None
      BY <1>0, <1>2
    <3>2. \A x \in cmd'.started : cmd'.mem[x] # None
      BY <1>0, <2>3, <2>4, <2>5 DEF StackInv, Memory
    <3> QED BY <1>0, <2>4, <2>5, <3>1, <3>2 DEF Memory
  <2>11. \A q \in Tracked(record) : q \in Procs
    BY <1>0 DEF Tracked, Owned
  <2>12. OwnedRunsActive'
    BY <1>0, <2>5, <2>6, <2>11 DEF StackInv, OwnedRunsActive
  <2>13. AllAnswerable'
    BY <1>0, <2>4, <2>5, <2>6 DEF StackInv, AllAnswerable, Answerable
  <2> QED BY <2>8, <2>9, <2>10, <2>12, <2>13 DEF StackInv
<1> QED BY <1>0, <1>1, <1>2 DEF spawn_component, Goto

\* The record takes what the start remembers.
LEMMA SaveStep ==
  ASSUME StackInv, write_runtime_state
  PROVE  StackInv'
<1>0. /\ UNCHANGED <<source, active, staged, proc, external, orphaned>>
      /\ record' = cmd.mem /\ cmd' = [cmd EXCEPT !.pc = "wait"]
      /\ cmd \in Commands /\ cmd.pc = "save" /\ cmd.mem \in [Components -> Owned \cup {None}]
  BY CommandFields DEF StackInv, Types, write_runtime_state, At, Goto, config
<1>1. /\ cmd' \in Commands /\ cmd'.pc = "wait" /\ cmd'.comp = cmd.comp /\ cmd'.src = cmd.src
      /\ cmd'.gen = cmd.gen /\ cmd'.mem = cmd.mem /\ cmd'.started = cmd.started
  BY <1>0, GotoFields, GotoType DEF Places
<1>2. Types'
  BY <1>0, <1>1 DEF StackInv, Types
<1>3. Generations'
  BY <1>0, <1>1 DEF StackInv, Generations
<1>4. Memory'
  BY <1>0, <1>1 DEF StackInv, Memory
<1>5. OwnedRunsActive'
  BY <1>0, <1>1 DEF StackInv, OwnedRunsActive
<1>6. AllAnswerable'
  BY <1>0, <1>1 DEF StackInv, AllAnswerable, Answerable
<1> QED BY <1>2, <1>3, <1>4, <1>5, <1>6 DEF StackInv

\* The component answers and its identity is read again, or its process is gone.
LEMMA WaitStep ==
  ASSUME StackInv, wait_for_component
  PROVE  StackInv'
<1> DEFINE c == cmd.comp
           e == proc[cmd.mem[c].p].exec
           r == [cmd.mem[c] EXCEPT !.exec = e]
           m == [cmd.mem EXCEPT ![c].exec = e]
<1>0. /\ UNCHANGED <<source, active, staged, proc, external, orphaned>>
      /\ cmd \in Commands /\ cmd.pc = "wait" /\ c \in Components /\ cmd.mem = record
      /\ record \in [Components -> Owned \cup {None}] /\ record[c] # None
      /\ proc \in [Procs -> [status : Alive \cup {"dead", "reused"}, comp : Components,
                             gen : Sources \cup {None}, exec : BOOLEAN]]
  BY CommandFields DEF StackInv, Types, Memory, wait_for_component, At, config
<1>1. CASE record' = record /\ cmd' = [cmd EXCEPT !.pc = "rollback"]
  BY <1>0, <1>1, GiveUpStep
<1>2. CASE record' = m /\ cmd' = NextStart(c, [cmd EXCEPT !.mem = m])
  <2>1. record[c] \in Owned /\ record[c].p \in Procs
    BY <1>0, TrackedMember
  <2>2. e \in BOOLEAN
    BY <1>0, <2>1
  <2>3. r \in Owned /\ r.p = record[c].p /\ r # None
    <3>1. r \in Owned /\ r.p = record[c].p
      BY <1>0, <2>1, <2>2 DEF Owned
    <3> QED BY <3>1, StackAssumption
  <2>4. m = [record EXCEPT ![c] = r]
    BY <1>0
  <2> HIDE DEF r, m, e, c
  <2>5. /\ m \in [Components -> Owned \cup {None}] /\ m[c] = r
        /\ \A x \in Components \ {c} : m[x] = record[x]
    BY <1>0, <2>3, <2>4
  <2>6. Tracked(m) = Tracked(record)
    <3>1. /\ \A x \in Components : m[x] = None => record[x] = None
          /\ \A x \in Components : record[x] = None => m[x] = None
          /\ \A x \in Components : m[x].p = record[x].p
      BY <1>0, <2>3, <2>5
    <3> QED BY <3>1, TrackedSame
  <2>7. PICK k : k = [cmd EXCEPT !.mem = m]
    OBVIOUS
  <2>8. /\ k \in Commands /\ k.src = cmd.src /\ k.gen = cmd.gen /\ k.mem = m
        /\ k.started = cmd.started
    BY <1>0, <2>5, <2>7 DEF Commands
  <2>9. /\ cmd' \in Commands /\ cmd'.pc \in {"spawn", "final"} /\ cmd'.src = cmd.src
        /\ cmd'.gen = cmd.gen /\ cmd'.mem = m /\ cmd'.started = cmd.started
    <3>1. cmd' = NextStart(c, k)
      BY <1>2, <2>7
    <3> QED BY <1>0, <2>8, <3>1, NextStartFields
  <2>10. Distinct(m)
    BY <1>0, <2>3, <2>5 DEF StackInv, Types, Distinct, Components
  <2>11. Types'
    BY <1>0, <1>2, <2>5, <2>9, <2>10 DEF StackInv, Types
  <2>12. Generations'
    BY <1>0, <2>9 DEF StackInv, Generations
  <2>13. Memory'
    <3>1. \A x \in cmd.started : x \in Components /\ record[x] # None
      BY <1>0, CommandFields DEF StackInv, Memory
    <3>2. \A x \in cmd'.started : cmd'.mem[x] # None
      BY <2>3, <2>5, <2>9, <3>1
    <3> QED BY <1>2, <2>9, <3>2 DEF Memory
  <2>14. OwnedRunsActive'
    BY <1>0, <1>2, <2>6, <2>9 DEF StackInv, OwnedRunsActive
  <2>15. AllAnswerable'
    BY <1>0, <1>2, <2>6, <2>9 DEF StackInv, AllAnswerable, Answerable
  <2> QED BY <2>11, <2>12, <2>13, <2>14, <2>15 DEF StackInv
<1> QED BY <1>1, <1>2 DEF wait_for_component, Goto

\* A rollback terminates a child it started, or counts it as orphaned.
LEMMA RollbackStep ==
  ASSUME StackInv, NEW signalled \in BOOLEAN, rollback_started_processes(signalled)
  PROVE  StackInv'
<1> DEFINE c == IF "gongbu" \in cmd.started THEN "gongbu" ELSE "hubu"
           p == cmd.mem[c].p
           Process == [status : Alive \cup {"dead", "reused"}, comp : Components,
                       gen : Sources \cup {None}, exec : BOOLEAN]
<1>0. /\ UNCHANGED <<source, active, staged, external>>
      /\ cmd \in Commands /\ cmd.pc = "rollback" /\ cmd.started \in SUBSET Components
      /\ cmd.mem \in [Components -> Owned \cup {None}]
      /\ record \in [Components -> Owned \cup {None}] /\ proc \in [Procs -> Process]
      /\ \A x \in cmd.started : cmd.mem[x] # None
      /\ \A x \in Components \ cmd.started : cmd.mem[x] # None => cmd.mem[x] = record[x]
  BY CommandFields DEF StackInv, Types, Memory, rollback_started_processes, At, config
<1>1. CASE cmd.started = {}
  <2>1. cmd' = Idle /\ record' \in {cmd.mem, record} /\ proc' = proc /\ orphaned' = orphaned
    BY <1>1 DEF rollback_started_processes, End
  <2>2. Tracked(cmd.mem) \subseteq Tracked(record)
    BY <1>0, <1>1 DEF Tracked
  <2> HIDE DEF Process
  <2> USE IdleFields
  <2>3. Types'
    BY <1>0, <2>1 DEF StackInv, Types
  <2>4. Generations'
    BY <1>0, <2>1 DEF StackInv, Generations
  <2>5. Memory'
    BY <2>1 DEF Memory
  <2>6. OwnedRunsActive'
    BY <1>0, <2>1, TrackedNone DEF StackInv, OwnedRunsActive
  <2>7. AllAnswerable'
    BY <1>0, <2>1, <2>2 DEF StackInv, AllAnswerable, Answerable
  <2> QED BY <2>3, <2>4, <2>5, <2>6, <2>7 DEF StackInv
<1>2. CASE cmd.started # {}
  <2>1. /\ proc' = [proc EXCEPT ![p] = IF signalled /\ @ # Stranger THEN NoProcess ELSE @]
        /\ orphaned' = (orphaned \/ (~signalled /\ proc[p].status \in Alive))
        /\ cmd' = [cmd EXCEPT !.mem[c] = None, !.started = @ \ {c}]
        /\ record' = record
    BY <1>2 DEF rollback_started_processes
  <2>2. c \in cmd.started /\ c \in Components
    BY <1>0, <1>2 DEF Components
  <2>3. p \in Procs
    BY <1>0, <2>2, TrackedMember
  <2> HIDE DEF c
  <2>4. /\ cmd' \in Commands /\ cmd'.pc = "rollback" /\ cmd'.gen = cmd.gen
        /\ cmd'.mem = [cmd.mem EXCEPT ![c] = None] /\ cmd'.started = cmd.started \ {c}
    <3> DEFINE m == [cmd.mem EXCEPT ![c] = None]
               started == cmd.started \ {c}
    <3>1. cmd' = [cmd EXCEPT !.mem = m, !.started = started]
      BY <2>1
    <3>2. m \in [Components -> Owned \cup {None}] /\ started \in SUBSET Components
      BY <1>0
    <3> HIDE DEF m, started
    <3>3. /\ cmd' \in Commands /\ cmd'.pc = "rollback" /\ cmd'.gen = cmd.gen
          /\ cmd'.mem = m /\ cmd'.started = started
      BY <1>0, <3>1, <3>2 DEF Commands
    <3> QED BY <3>3 DEF m, started
  <2>5. /\ cmd'.mem[c] = None
        /\ \A x \in Components \ {c} : cmd'.mem[x] = cmd.mem[x]
    BY <1>0, <2>2, <2>4
  <2>6. /\ Tracked(cmd'.mem) \subseteq Tracked(cmd.mem)
        /\ \A q \in Tracked(cmd.mem) : q \in Tracked(cmd'.mem) \/ q = p
    BY <2>2, <2>5, TrackedRemove
  <2>7. /\ NoProcess \in Process /\ NoProcess.status \notin Alive
        /\ Stranger.status \notin Alive
    BY DEF NoProcess, Stranger, Alive, Components
  <2> HIDE DEF p
  <2>8. /\ proc' \in [Procs -> Process]
        /\ \A q \in Procs \ {p} : proc'[q] = proc[q]
        /\ proc'[p] = proc[p] \/ proc'[p] = NoProcess
        /\ signalled => proc'[p].status \notin Alive
    BY <1>0, <2>1, <2>3, <2>7
  <2>9. orphaned' \in BOOLEAN /\ (orphaned => orphaned')
        /\ (~orphaned' => proc'[p].status \notin Alive)
    <3>1. proc[p].status \notin Alive => proc'[p].status \notin Alive
      BY <2>7, <2>8
    <3> QED BY <2>1, <2>8, <3>1
  <2> HIDE DEF Process
  <2>10. Types'
    <3>1. Distinct(cmd'.mem)
      BY <2>2, <2>5 DEF StackInv, Types, Distinct, Components
    <3> QED BY <1>0, <2>1, <2>4, <2>8, <2>9, <3>1 DEF StackInv, Types, Process
  <2>11. Generations'
    BY <1>0, <2>4 DEF StackInv, Generations
  <2>12. Memory'
    BY <1>0, <2>1, <2>4, <2>5 DEF Memory
  <2>13. \A q \in Tracked(cmd.mem) \cup Tracked(record) : q \in Procs
    BY <1>0 DEF Tracked, Owned
  <2>14. OwnedRunsActive'
    BY <1>0, <2>1, <2>6, <2>7, <2>8, <2>13 DEF StackInv, OwnedRunsActive
  <2>15. AllAnswerable'
    BY <1>0, <2>4, <2>6, <2>8, <2>9 DEF StackInv, AllAnswerable, Answerable
  <2> QED BY <2>10, <2>11, <2>12, <2>14, <2>15 DEF StackInv
<1> QED BY <1>1, <1>2

\* A component is taken out of the record and of what stop remembers; a process
\* that still lives counts as orphaned from then on.
LEMMA RemovedStep ==
  ASSUME StackInv, cmd.pc \in {"stop", "term"}, cmd.mem[cmd.comp] # None, Removed(cmd.comp),
         UNCHANGED <<source, active, staged, external>>
  PROVE  StackInv'
<1> DEFINE c == cmd.comp
           m == [cmd.mem EXCEPT ![c] = None]
           p == record[c].p
           Process == [status : Alive \cup {"dead", "reused"}, comp : Components,
                       gen : Sources \cup {None}, exec : BOOLEAN]
<1>0. /\ cmd \in Commands /\ c \in Components /\ cmd.started = {} /\ cmd.mem = record
      /\ record \in [Components -> Owned \cup {None}] /\ proc \in [Procs -> Process]
      /\ orphaned \in BOOLEAN
  BY CommandFields DEF StackInv, Types, Memory
<1>1. /\ record' = m /\ cmd' = NextStop(c, [cmd EXCEPT !.mem[c] = None])
      /\ proc' = [proc EXCEPT ![p] = IF @ = Stranger THEN NoProcess ELSE @]
      /\ orphaned' = (orphaned \/ proc[p].status \in Alive)
  BY <1>0 DEF Removed
<1>2. /\ m \in [Components -> Owned \cup {None}] /\ m[c] = None
      /\ \A x \in Components \ {c} : m[x] = record[x]
  BY <1>0
<1>3. PICK k : k = [cmd EXCEPT !.mem = m]
  OBVIOUS
<1>4. cmd' = NextStop(c, k)
  BY <1>1, <1>3
<1>p. p \in Procs
  BY <1>0, TrackedMember
<1>s. /\ NoProcess \in Process /\ NoProcess.status \notin Alive
      /\ Stranger.status \notin Alive
  BY DEF NoProcess, Stranger, Alive, Components
<1> HIDE DEF m, c, p
<1>5. k \in Commands /\ k.mem = m /\ k.started = {} /\ k.op = cmd.op
  BY <1>0, <1>2, <1>3 DEF Commands
<1>6. /\ cmd' \in Commands /\ cmd'.pc \in {"stop", "done"} /\ cmd'.mem = m
      /\ cmd'.started = {} /\ cmd'.op = cmd.op
  BY <1>0, <1>4, <1>5, NextStopFields
<1>7. /\ Tracked(m) \subseteq Tracked(record)
      /\ \A q \in Tracked(record) : q \in Tracked(m) \/ q = p
  BY <1>0, <1>2, TrackedRemove DEF p
<1>8. /\ proc' \in [Procs -> Process]
      /\ \A q \in Procs : proc'[q] = proc[q] \/ proc'[q] = NoProcess
  BY <1>0, <1>1, <1>p, <1>s
<1>9. \A q \in Procs : proc'[q].status \in Alive =>
                         proc[q].status \in Alive /\ proc'[q].gen = proc[q].gen
  BY <1>8, <1>s
<1>10. orphaned' \in BOOLEAN /\ (orphaned => orphaned')
       /\ (~orphaned' => proc'[p].status \notin Alive)
  BY <1>0, <1>1, <1>9, <1>p
<1> HIDE DEF Process
<1>11. Types'
  <2>1. Distinct(m)
    BY <1>0, <1>2 DEF StackInv, Types, Distinct, Components
  <2> QED BY <1>1, <1>2, <1>6, <1>8, <1>10, <2>1 DEF StackInv, Types, Process
<1>12. Generations'
  BY <1>6 DEF StackInv, Generations
<1>13. Memory'
  BY <1>1, <1>6 DEF StackInv, Memory
<1>14. \A q \in Tracked(record) : q \in Procs
  BY <1>0 DEF Tracked, Owned
<1>15. OwnedRunsActive'
  BY <1>1, <1>6, <1>7, <1>9, <1>14 DEF StackInv, OwnedRunsActive
<1>16. AllAnswerable'
  BY <1>1, <1>6, <1>7, <1>9, <1>10 DEF StackInv, AllAnswerable, Answerable
<1> QED BY <1>11, <1>12, <1>13, <1>15, <1>16 DEF StackInv

\* stop goes on, and the processes keep their generations.
LEMMA SignalStep ==
  ASSUME StackInv, cmd.pc \in {"stop", "term"}, cmd' \in Commands, cmd'.mem = cmd.mem,
         cmd'.started = cmd.started, cmd'.op = cmd.op, cmd'.pc \in {"stop", "term", "done"},
         cmd'.pc = "term" => cmd'.mem[cmd'.comp] # None,
         UNCHANGED <<source, active, staged, record, external, orphaned>>,
         proc' \in [Procs -> [status : Alive \cup {"dead", "reused"}, comp : Components,
                              gen : Sources \cup {None}, exec : BOOLEAN]],
         \A q \in Procs : proc'[q].status \in Alive =>
                           proc[q].status \in Alive /\ proc'[q].gen = proc[q].gen
  PROVE  StackInv'
<1>0. /\ cmd.started = {} /\ cmd.mem = record /\ record \in [Components -> Owned \cup {None}]
  BY DEF StackInv, Types, Memory
<1>1. Types'
  BY DEF StackInv, Types
<1>2. Generations'
  BY DEF StackInv, Generations
<1>3. Memory'
  BY <1>0 DEF StackInv, Memory
<1>4. \A q \in Tracked(record) : q \in Procs
  BY <1>0 DEF Tracked, Owned
<1>5. OwnedRunsActive'
  BY <1>0, <1>4 DEF StackInv, OwnedRunsActive
<1>6. AllAnswerable'
  BY DEF StackInv, AllAnswerable, Answerable
<1> QED BY <1>1, <1>2, <1>3, <1>5, <1>6 DEF StackInv

\* Whatever ps says or fails to say, stop removes a record only as RemovedStep
\* accounts for it.
LEMMA StopStep ==
  ASSUME StackInv, NEW blind, stop_components(blind)
  PROVE  StackInv'
<1> DEFINE c == cmd.comp
           r == cmd.mem[c]
           state == IF r = None THEN "none" ELSE recorded_process_state(r, blind)
<1>0. /\ UNCHANGED <<source, active, staged, external>>
      /\ cmd \in Commands /\ c \in Components /\ cmd.pc = "stop"
      /\ proc \in [Procs -> [status : Alive \cup {"dead", "reused"}, comp : Components,
                             gen : Sources \cup {None}, exec : BOOLEAN]]
      /\ cmd.op \in {"stop", "forget"}
  BY CommandFields DEF StackInv, Types, Memory, stop_components, At, config
<1>1. /\ state \in {"none", "exited", "running", "identity_mismatch"}
      /\ state # "none" => r # None
  BY DEF recorded_process_state
<1>2. CASE state = "none" \/ (state = "identity_mismatch" /\ cmd.op = "stop")
  <2>1. cmd' = NextStop(c, cmd) /\ UNCHANGED <<record, proc, orphaned>>
    BY <1>0, <1>2 DEF stop_components
  <2>2. /\ cmd' \in Commands /\ cmd'.pc \in {"stop", "done"} /\ cmd'.op = cmd.op
        /\ cmd'.mem = cmd.mem /\ cmd'.started = cmd.started
    BY <1>0, <2>1, NextStopFields
  <2> QED BY <1>0, <2>1, <2>2, SignalStep
<1>3. CASE state = "exited" \/ (state = "identity_mismatch" /\ cmd.op = "forget")
  <2>1. Removed(c)
    BY <1>0, <1>3 DEF stop_components
  <2>2. cmd.mem[cmd.comp] # None
    BY <1>1, <1>3
  <2> HIDE DEF r, state
  <2> QED BY <1>0, <2>1, <2>2, RemovedStep
<1>4. CASE state = "running"
  <2>1. cmd' = [cmd EXCEPT !.pc = "term"] /\ UNCHANGED <<record, proc, orphaned>>
    BY <1>0, <1>4 DEF stop_components, Goto
  <2>2. r # None
    BY <1>1, <1>4
  <2>3. /\ cmd' \in Commands /\ cmd'.pc = "term" /\ cmd'.op = cmd.op /\ cmd'.comp = cmd.comp
        /\ cmd'.mem = cmd.mem /\ cmd'.started = cmd.started
    BY <1>0, <2>1, GotoFields, GotoType DEF Places
  <2> QED BY <1>0, <2>1, <2>2, <2>3, SignalStep
<1> QED BY <1>0, <1>1, <1>2, <1>3, <1>4

\* A process that was signalled is killed while stop sees it run, and loses its
\* record when stop does not.
LEMMA StopOwnedStep ==
  ASSUME StackInv, NEW blind, stop_owned_process(blind)
  PROVE  StackInv'
<1> DEFINE r == cmd.mem[cmd.comp]
           p == r.p
           Process == [status : Alive \cup {"dead", "reused"}, comp : Components,
                       gen : Sources \cup {None}, exec : BOOLEAN]
<1>0. /\ UNCHANGED <<source, active, staged, external>>
      /\ cmd \in Commands /\ cmd.comp \in Components /\ cmd.pc = "term"
      /\ cmd.mem \in [Components -> Owned \cup {None}] /\ cmd.mem[cmd.comp] # None
      /\ proc \in [Procs -> Process]
  BY CommandFields DEF StackInv, Types, Memory, stop_owned_process, At, config
<1>1. p \in Procs
  BY <1>0, TrackedMember
<1>2. NoProcess \in Process /\ NoProcess.status \notin Alive
  BY DEF NoProcess, Alive, Components
<1>3. CASE recorded_process_state(r, blind) = "running"
  <2>1. proc' = [proc EXCEPT ![p] = NoProcess] /\ UNCHANGED <<record, cmd, orphaned>>
    BY <1>3 DEF stop_owned_process
  <2> HIDE DEF p
  <2>2. /\ proc' \in [Procs -> Process]
        /\ \A q \in Procs : proc'[q].status \in Alive =>
                             proc[q].status \in Alive /\ proc'[q].gen = proc[q].gen
    BY <1>0, <1>1, <1>2, <2>1
  <2> QED BY <1>0, <2>1, <2>2, SignalStep
<1>4. CASE recorded_process_state(r, blind) # "running"
  <2>1. Removed(cmd.comp)
    BY <1>4 DEF stop_owned_process
  <2> QED BY <1>0, <2>1, RemovedStep
<1> QED BY <1>3, <1>4

----------------------------------------------------------------------------
(* The theorems *)

\* An empty profile owns nothing.
LEMMA InitStack == Init => StackInv
<1> SUFFICES ASSUME Init PROVE StackInv
  OBVIOUS
<1> USE IdleFields DEF Init
<1>1. Types
  <2>1. NoOwned \in [Components -> Owned \cup {None}]
    BY DEF NoOwned
  <2>2. NoProcess \in [status : Alive \cup {"dead", "reused"}, comp : Components,
                       gen : Sources \cup {None}, exec : BOOLEAN]
    BY DEF NoProcess, Components
  <2> QED BY <2>1, <2>2 DEF Types
<1>2. Generations
  BY DEF Generations
<1>3. Memory
  BY DEF Memory
<1>4. OwnedRunsActive
  BY TrackedNone DEF OwnedRunsActive
<1>5. AllAnswerable
  BY DEF AllAnswerable, Alive, NoProcess
<1> QED BY <1>1, <1>2, <1>3, <1>4, <1>5 DEF StackInv

\* Every command, failure and server keeps the invariant.
LEMMA NextStack == StackInv /\ [Next]_vars => StackInv'
<1> SUFFICES ASSUME StackInv, [Next]_vars PROVE StackInv'
  OBVIOUS
<1>1. CASE UNCHANGED vars
  <2>1. UNCHANGED <<source, active, staged, record, proc, external, cmd, orphaned>>
    BY <1>1 DEF vars, config
  <2> QED BY <2>1 DEF StackInv, Types, Generations, Memory, OwnedRunsActive, AllAnswerable,
                      Answerable
<1>2. CASE Step
  BY <1>2, RenderProfileStep, RenderGenerationStep, ActivateStep, StartStep, SpawnStep, SaveStep,
     WaitStep, FailureStep, RollbackStep, StopStep, StopOwnedStep DEF Step
<1>3. CASE Fault
  BY <1>3, FailureStep, RenderGenerationStep, RollbackStep, KilledStep, SurroundingsStep,
     ServerStep, StartStep, StopStep, StopOwnedStep DEF Fault
<1>4. ASSUME NEW op \in Ops, acquire_lifecycle_lock(op) PROVE StackInv'
  BY <1>4, AcquireStep
<1>5. ASSUME NEW p \in Procs, Listen(p) PROVE StackInv'
  BY <1>5, ServerStep
<1> QED BY <1>1, <1>2, <1>3, <1>4, <1>5 DEF Next, Work

\* The invariant holds whenever commands are killed and servers fail.
THEOREM StackInvariance == Spec => []StackInv
BY InitStack, NextStack, PTL DEF Spec

\* Two different members make a set of two.
LEMMA PairCardinality ==
  ASSUME NEW x, NEW y, x # y
  PROVE  Cardinality({x, y}) = 2
<1>1. IsFiniteSet({x}) /\ Cardinality({x}) = 1
  BY FS_Singleton
<1>2. Cardinality({x} \cup {y}) = Cardinality({x}) + 1
  BY <1>1, FS_AddElement
<1>3. {x} \cup {y} = {x, y}
  OBVIOUS
<1> QED BY <1>1, <1>2, <1>3

\* A record whose components have different processes tracks one for each.
LEMMA DistinctTracks ==
  ASSUME NEW m, Distinct(m)
  PROVE  Cardinality(Tracked(m)) = Cardinality({c \in Components : m[c] # None})
<1> DEFINE named == {c \in Components : m[c] # None}
<1>1. CASE m["hubu"] = None /\ m["gongbu"] = None
  <2>1. named = {} /\ Tracked(m) = {}
    BY <1>1 DEF Tracked, Components
  <2> QED BY <2>1
<1>2. CASE m["hubu"] # None /\ m["gongbu"] = None
  <2>1. named = {"hubu"} /\ Tracked(m) = {m["hubu"].p}
    BY <1>2 DEF Tracked, Components
  <2> QED BY <2>1, FS_Singleton
<1>3. CASE m["hubu"] = None /\ m["gongbu"] # None
  <2>1. named = {"gongbu"} /\ Tracked(m) = {m["gongbu"].p}
    BY <1>3 DEF Tracked, Components
  <2> QED BY <2>1, FS_Singleton
<1>4. CASE m["hubu"] # None /\ m["gongbu"] # None
  <2>1. named = {"hubu", "gongbu"} /\ Tracked(m) = {m["hubu"].p, m["gongbu"].p}
    BY <1>4 DEF Tracked, Components
  <2>2. Cardinality({m["hubu"].p, m["gongbu"].p}) = 2
    BY <1>4, PairCardinality DEF Distinct
  <2>3. Cardinality({"hubu", "gongbu"}) = 2
    BY PairCardinality
  <2> QED BY <2>1, <2>2, <2>3
<1> QED BY <1>1, <1>2, <1>3, <1>4

\* Every state a launcher leaves behind can be loaded by the next one: the
\* record is well formed, names no process twice, and the active generation is
\* whole.
THEOREM TypeCorrect == Spec => []TypeOK
<1>1. StackInv => TypeOK
  <2> SUFFICES ASSUME StackInv PROVE TypeOK
    OBVIOUS
  <2>1. \A m \in {record, cmd.mem} :
          Cardinality(Tracked(m)) = Cardinality({c \in Components : m[c] # None})
    BY DistinctTracks DEF StackInv, Types
  <2>2. cmd.mem \in [Components -> Owned \cup {None}] /\ cmd.started \subseteq Components
    BY CommandFields DEF StackInv, Types
  <2>3. cmd.pc \in {"spawn", "save", "wait", "final"} => cmd.gen \in Sources
    BY DEF StackInv, Types, Generations
  <2>4. active # None => staged[active] = "complete"
    BY DEF StackInv, Generations
  <2> QED BY <2>1, <2>2, <2>3, <2>4 DEF StackInv, Types, TypeOK
<1> QED BY <1>1, StackInvariance, PTL

\* Activation and rollback never change the configuration under a server the
\* launcher owns, and no start mixes generations, whoever was killed before.
THEOREM OwnedServersRunActive == Spec => []OwnedRunsActive
<1>1. StackInv => OwnedRunsActive
  BY DEF StackInv
<1> QED BY <1>1, StackInvariance, PTL

\* No server is left without a record, whatever ps answers, unless a kill, a failed
\* signal, an operator or a misread answer of ps has counted it as orphaned.
THEOREM NoServerLeftBehind == Spec => []NothingLeftBehind
<1>1. StackInv => NothingLeftBehind
  BY DEF StackInv, AllAnswerable, Answerable, NothingLeftBehind
<1> QED BY <1>1, StackInvariance, PTL
=============================================================================
