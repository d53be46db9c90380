---------------------------- MODULE DrainControl ----------------------------
(***************************************************************************)
(* Who drains the server, and when (server/server.go, drain/).             *)
(*                                                                         *)
(* Two goroutines do it and share s.ctx and s.cancel without a lock: the   *)
(* drain loop of Start, which looks at the kill file and the unkill file   *)
(* every DrainInterval, and handleSigterm.  Drain cancels the context and  *)
(* then waits for the workers' client tables to empty; Undrain replaces a  *)
(* cancelled context.                                                      *)
(*                                                                         *)
(* What a cancelled context does to the subscriptions is in Subscription;  *)
(* here busy[w] says that the table of worker w is not empty, and stuck[w] *)
(* that a Stop blocks with the mutex of one of its subscriptions held, so  *)
(* that inventoryClients, which Drain calls, has to wait.                  *)
(***************************************************************************)
EXTENDS Integers

CONSTANTS
    Context,     \* identities of contexts, reused once nobody refers to them
    Workers,     \* Config.SendWorkers
    DrainRounds  \* rounds of the wait in Drain (10)

Loop == "loop"
Term == "term"
Drainer == {Loop, Term}

ASSUME DrainAssumption ==
    /\ Context # {} /\ \A c, d \in Context : \E e \in Context : e \notin {c, d}
    /\ Workers \in Nat \ {0} /\ DrainRounds \in Nat

VARIABLES
    killFile,    \* the drain file exists
    unkillFile,  \* the force undrain file exists
    pc,          \* pc[a]: what the goroutine is about to do
    shouldDrain, \* the loop's local of this name
    fresh,       \* the context Undrain has just created
    ctx,         \* s.ctx
    cancel,      \* s.cancel: the context this function cancels
    cancelled,   \* the contexts that are cancelled
    pos,         \* pos[a]: visits made in the wait of Drain
    busy,        \* busy[w]: worker w has clients
    stuck,       \* stuck[w]: a Stop blocks and holds the mutex of one of them
    gauge,       \* the drain counter of Stats
    pidFile,     \* the pid file exists
    exited       \* "no", "done" (graceful) or "fail"

fileVars == <<killFile, unkillFile>>
ctxVars == <<fresh, ctx, cancel, cancelled>>
clientVars == <<busy, stuck>>
endVars == <<pidFile, exited>>
vars == <<fileVars, pc, shouldDrain, ctxVars, pos, clientVars, gauge, endVars>>

Init ==
    /\ killFile \in BOOLEAN /\ unkillFile \in BOOLEAN
    /\ pc = [a \in Drainer |-> IF a = Loop THEN "check" ELSE "idle"]
    /\ shouldDrain = FALSE
    /\ ctx \in Context /\ cancel = ctx /\ fresh = ctx
    /\ cancelled = {}
    /\ pos = [a \in Drainer |-> 0]
    /\ busy = [w \in 1 .. Workers |-> FALSE] /\ stuck = [w \in 1 .. Workers |-> FALSE]
    /\ gauge = FALSE
    /\ pidFile = TRUE
    /\ exited = "no"

Running == exited = "no"
GoTo(a, l) == pc' = [pc EXCEPT ![a] = l]

-----------------------------------------------------------------------------
(***************************************************************************)
(* The drain loop: one round of checks.                                    *)
(***************************************************************************)
\* Variant: the check of the kill file never fires.
CheckNever ==
    /\ Running /\ pc[Loop] = "check"
    /\ shouldDrain' = FALSE
    /\ GoTo(Loop, "undrainfile")
    /\ UNCHANGED <<fileVars, ctxVars, pos, clientVars, gauge, endVars>>

Check ==
    /\ Running /\ pc[Loop] = "check"
    /\ shouldDrain' = killFile
    /\ GoTo(Loop, "undrainfile")
    /\ UNCHANGED <<fileVars, ctxVars, pos, clientVars, gauge, endVars>>

\* Variant: the force undrain file has no effect.
CheckUndrainFileIgnored ==
    /\ Running /\ pc[Loop] = "undrainfile"
    /\ GoTo(Loop, IF shouldDrain THEN "drain" ELSE "undrain")
    /\ UNCHANGED <<fileVars, shouldDrain, ctxVars, pos, clientVars, gauge, endVars>>

CheckUndrainFile ==
    /\ Running /\ pc[Loop] = "undrainfile"
    /\ shouldDrain' = (shouldDrain /\ ~ unkillFile)
    /\ GoTo(Loop, IF shouldDrain' THEN "drain" ELSE "undrain")
    /\ UNCHANGED <<fileVars, ctxVars, pos, clientVars, gauge, endVars>>

SetDrain ==
    /\ Running /\ pc[Loop] = "setdrain"
    /\ gauge' = shouldDrain
    /\ GoTo(Loop, "sleep")
    /\ UNCHANGED <<fileVars, shouldDrain, ctxVars, pos, clientVars, endVars>>

\* The metric loop: Stats.Reset clears this counter with all the others.
Reset ==
    /\ Running
    /\ gauge' = FALSE
    /\ UNCHANGED <<fileVars, pc, shouldDrain, ctxVars, pos, clientVars, endVars>>

DrainInterval ==
    /\ Running /\ pc[Loop] = "sleep"
    /\ GoTo(Loop, "check")
    /\ UNCHANGED <<fileVars, shouldDrain, ctxVars, pos, clientVars, gauge, endVars>>

(***************************************************************************)
(* Drain, called by either goroutine a.                                    *)
(***************************************************************************)
DrainCheck(a) ==
    /\ Running /\ pc[a] = "drain"
    /\ GoTo(a, IF ctx \in cancelled THEN "wait" ELSE "cancel")
    /\ pos' = [pos EXCEPT ![a] = 0]
    /\ UNCHANGED <<fileVars, shouldDrain, ctxVars, clientVars, gauge, endVars>>

DrainCancel(a) ==
    /\ Running /\ pc[a] = "cancel"
    /\ cancelled' = cancelled \cup {cancel}
    /\ GoTo(a, "wait")
    /\ UNCHANGED <<fileVars, shouldDrain, fresh, ctx, cancel, pos, clientVars,
                   gauge, endVars>>

AfterDrain(a) == IF a = Loop THEN "setdrain" ELSE "deletepid"
Visits == DrainRounds * Workers

\* Variant: waits until the tables are empty, however long it takes.
DrainWaitForever(a) ==
    /\ Running /\ pc[a] = "wait"
    /\ \A w \in 1 .. Workers : ~ busy[w]
    /\ GoTo(a, AfterDrain(a))
    /\ UNCHANGED <<fileVars, shouldDrain, ctxVars, pos, clientVars, gauge, endVars>>

\* Variant: one visit too many.
DrainWaitLonger(a) ==
    /\ Running /\ pc[a] = "wait"
    /\ IF pos[a] > Visits
         THEN GoTo(a, AfterDrain(a)) /\ UNCHANGED pos
         ELSE pos' = [pos EXCEPT ![a] = @ + 1] /\ UNCHANGED pc
    /\ UNCHANGED <<fileVars, shouldDrain, ctxVars, clientVars, gauge, endVars>>

\* inventoryClients gets the mutex of every subscription of worker w.
InventoryPasses(w) == ~ stuck[w]

\* One visit of a worker: its inventory, and a second's sleep if it has clients.
DrainWait(a) ==
    /\ Running /\ pc[a] = "wait"
    /\ IF pos[a] = Visits
         THEN GoTo(a, AfterDrain(a)) /\ UNCHANGED pos
         ELSE /\ InventoryPasses(1 + (pos[a] % Workers))
              /\ pos' = [pos EXCEPT ![a] = @ + 1]
              /\ UNCHANGED pc
    /\ UNCHANGED <<fileVars, shouldDrain, ctxVars, clientVars, gauge, endVars>>

(***************************************************************************)
(* Undrain.  Two fields are stored while the other goroutine may read them *)
(* without a lock: in either order.                                        *)
(***************************************************************************)
\* Variant: a context that nobody cancelled is replaced, too.
UndrainAlways ==
    /\ Running /\ pc[Loop] = "undrain"
    /\ fresh' = CHOOSE c \in Context : c \notin {ctx, cancel}
    /\ cancelled' = cancelled \ {fresh'}
    /\ GoTo(Loop, "store")
    /\ UNCHANGED <<fileVars, shouldDrain, ctx, cancel, pos, clientVars, gauge,
                   endVars>>

Undrain ==
    /\ Running /\ pc[Loop] = "undrain"
    /\ IF ctx \in cancelled
         THEN /\ fresh' = CHOOSE c \in Context : c \notin {ctx, cancel}
              /\ cancelled' = cancelled \ {fresh'}
              /\ GoTo(Loop, "store")
         ELSE GoTo(Loop, "setdrain") /\ UNCHANGED <<fresh, cancelled>>
    /\ UNCHANGED <<fileVars, shouldDrain, ctx, cancel, pos, clientVars, gauge,
                   endVars>>

StoreCtx ==
    /\ Running /\ pc[Loop] = "store" /\ ctx # fresh
    /\ ctx' = fresh
    /\ UNCHANGED <<fileVars, pc, shouldDrain, fresh, cancel, cancelled, pos,
                   clientVars, gauge, endVars>>

StoreCancel ==
    /\ Running /\ pc[Loop] = "store" /\ cancel # fresh
    /\ cancel' = fresh
    /\ UNCHANGED <<fileVars, pc, shouldDrain, fresh, ctx, cancelled, pos,
                   clientVars, gauge, endVars>>

\* Variant: returns before both fields are stored.
StoredOne ==
    /\ Running /\ pc[Loop] = "store" /\ (ctx = fresh \/ cancel = fresh)
    /\ GoTo(Loop, "setdrain")
    /\ UNCHANGED <<fileVars, shouldDrain, ctxVars, pos, clientVars, gauge, endVars>>

Stored ==
    /\ Running /\ pc[Loop] = "store" /\ ctx = fresh /\ cancel = fresh
    /\ GoTo(Loop, "setdrain")
    /\ UNCHANGED <<fileVars, shouldDrain, ctxVars, pos, clientVars, gauge, endVars>>

(***************************************************************************)
(* handleSigterm, and the ways the process ends.                           *)
(***************************************************************************)
Sigterm ==
    /\ Running /\ pc[Term] = "idle"
    /\ GoTo(Term, "drain")
    /\ UNCHANGED <<fileVars, shouldDrain, ctxVars, pos, clientVars, gauge, endVars>>

\* Without the pid file os.Remove fails and the process exits with an error.
DeletePidFile ==
    /\ Running /\ pc[Term] = "deletepid"
    /\ exited' = IF pidFile THEN "done" ELSE "fail"
    /\ pidFile' = FALSE
    /\ UNCHANGED <<fileVars, pc, shouldDrain, ctxVars, pos, clientVars, gauge>>

\* A listener or a worker gave up: `one of server routines finished'.
Fail ==
    /\ Running
    /\ exited' = "fail"
    /\ UNCHANGED <<fileVars, pc, shouldDrain, ctxVars, pos, clientVars, gauge,
                   pidFile>>

-----------------------------------------------------------------------------
(***************************************************************************)
(* The environment: operators plant and remove files, clients come and go. *)
(* They are registered before the handler looks at the context, so a table *)
(* may fill while the server is drained.  A Stop may block at any time,    *)
(* and for ever.                                                           *)
(***************************************************************************)
Files ==
    /\ killFile' \in BOOLEAN /\ unkillFile' \in BOOLEAN /\ pidFile' \in {pidFile, FALSE}
    /\ UNCHANGED <<pc, shouldDrain, ctxVars, pos, clientVars, gauge, exited>>

Clients(w) ==
    /\ Running /\ ~ stuck[w]
    /\ busy' = [busy EXCEPT ![w] = ~ @]
    /\ UNCHANGED <<fileVars, pc, shouldDrain, ctxVars, pos, stuck, gauge, endVars>>

\* A Stop blocks, or the one that blocked goes on.
Stop(w) ==
    /\ Running /\ busy[w]
    /\ stuck' = [stuck EXCEPT ![w] = ~ @]
    /\ UNCHANGED <<fileVars, pc, shouldDrain, ctxVars, pos, busy, gauge, endVars>>

DrainStep(a) == DrainCheck(a) \/ DrainCancel(a) \/ DrainWait(a)

LoopStep ==
    \/ Check \/ CheckUndrainFile \/ DrainStep(Loop)
    \/ Undrain \/ StoreCtx \/ StoreCancel \/ Stored
    \/ SetDrain \/ DrainInterval

TermStep == DrainStep(Term) \/ DeletePidFile

Next ==
    \/ LoopStep \/ TermStep
    \/ Sigterm \/ Fail \/ Files \/ Reset
    \/ \E w \in 1 .. Workers : Clients(w) \/ Stop(w)

Spec == Init /\ [][Next]_vars

\* The Go scheduler runs both goroutines, and a goroutine that waits for a mutex
\* gets it if it is released time and again (sync.Mutex has a starvation mode).
\* Signals, failures, files, clients and metrics come as they please, and a Stop
\* that blocks need not go on.
FairSpec ==
    /\ Spec /\ WF_vars(LoopStep) /\ WF_vars(TermStep)
    /\ \A a \in Drainer : SF_vars(DrainWait(a))

-----------------------------------------------------------------------------
\* The types of the variables.
TypeOK ==
    /\ killFile \in BOOLEAN /\ unkillFile \in BOOLEAN
    /\ pc \in [Drainer -> {"idle", "check", "undrainfile", "drain", "cancel",
                           "wait", "undrain", "store", "setdrain", "sleep",
                           "deletepid"}]
    /\ shouldDrain \in BOOLEAN
    /\ fresh \in Context /\ ctx \in Context /\ cancel \in Context
    /\ cancelled \subseteq Context
    /\ pos \in [Drainer -> 0 .. Visits]
    /\ busy \in [1 .. Workers -> BOOLEAN] /\ stuck \in [1 .. Workers -> BOOLEAN]
    /\ gauge \in BOOLEAN
    /\ pidFile \in BOOLEAN /\ exited \in {"no", "done", "fail"}

(***************************************************************************)
(* Between two rounds of the loop the server is in the state the loop      *)
(* decided on: drained or not, and s.cancel cancels s.ctx, as long as no   *)
(* SIGTERM interferes.  The counter never says drained when it is not; on  *)
(* a drained server it may read 0 until the next round, because the metric *)
(* loop clears it at any moment.                                           *)
(***************************************************************************)
RestFollowsDecision ==
    pc[Loop] = "sleep" =>
        /\ cancel = ctx
        /\ gauge => shouldDrain
        /\ shouldDrain => ctx \in cancelled
        /\ pc[Term] = "idle" => (ctx \in cancelled => shouldDrain)

(***************************************************************************)
(* A context that is not cancelled is never replaced: the subscriptions    *)
(* that run under it would be out of reach of every later Drain.           *)
(***************************************************************************)
NoneAbandoned == [][ctx' # ctx => ctx \in cancelled]_ctx

(***************************************************************************)
(* The kill file drains: once it is there for good, without the unkill     *)
(* file, the server gets drained and stays so while it runs.               *)
(***************************************************************************)
KillFileDrains ==
    <>[](killFile /\ ~ unkillFile /\ Running) => <>[](ctx \in cancelled)

\* A Stop blocks for ever on a subscription of some worker (see StopReturns).
StopHangs == \E w \in 1 .. Workers : <>[]stuck[w]

(***************************************************************************)
(* The unkill file wins over the kill file, and no kill file means no      *)
(* drain: with one or the other for good, the server serves again and goes *)
(* on serving, unless a Stop blocks for ever, in whose inventory the loop  *)
(* may hang.  (Files that change between the two looks of one round may    *)
(* give a decision that fits neither moment.)                              *)
(***************************************************************************)
UnkillFileServes ==
    (\/ <>[](unkillFile /\ pc[Term] = "idle" /\ Running)
     \/ <>[](~ killFile /\ pc[Term] = "idle" /\ Running)) =>
    StopHangs \/ <>[](ctx \notin cancelled)

(***************************************************************************)
(* SIGTERM ends the process, whatever the clients and the loop do          *)
(* meanwhile, unless a Stop blocks for ever: then the inventory of its     *)
(* Drain may wait for ever, too.                                           *)
(***************************************************************************)
SigtermExits == StopHangs \/ (pc[Term] # "idle" ~> ~ Running)

(***************************************************************************)
(* After Drain the context is cancelled: "expected context.Canceled error" *)
(* (server/server_test.go, TestDrain); here, after the Drain of SIGTERM.   *)
(***************************************************************************)
SigtermDrained == pc[Term] = "deletepid" => ctx \in cancelled

=============================================================================
