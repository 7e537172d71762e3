--------------------------- MODULE Authentication ----------------------------
(***************************************************************************)
(* GDriveHandler::performAuthentication as the tasks of an upload call it: *)
(* with a slot of m_upload_slots in hand, possibly several at a time.      *)
(* Each call has an httplib server of its own in a detached thread, all on *)
(* port 8080; the call and its server share a promise that lives on the    *)
(* call's stack.  add-account calls it alone, with no slot.                *)
(*                                                                         *)
(* The port has one owner: the sources are built for Windows, where the    *)
(* library takes it exclusively.  A server thread that outlives its call   *)
(* works on destroyed objects; what the program may do then is die at any  *)
(* moment, or go on as if the objects were still there.                    *)
(***************************************************************************)
EXTENDS Semaphore

CONSTANT MaxSignIns     \* bound on the sign-ins of one task

ASSUME MaxSignInsAssumption == MaxSignIns \in Nat \ {0}

VARIABLES signIn,       \* signIn[t]: where task t's call stands
          server,       \* server[t]: the server thread of that call
          promise,      \* promise[t]: code_promise of that call
          signIns,      \* signIns[t]: calls t made with the slot it holds
          orphan,       \* a server thread whose call is over
          dangling,     \* some thread works on destroyed objects
          gaveUp,       \* history: a call threw while its server was up
          credentials,  \* the credentials have "installed"."client_id"
          dead          \* the process died of undefined behaviour

calls == <<signIn, server, promise, signIns>>
leftovers == <<orphan, dangling, gaveUp>>
authVars == <<vars, calls, leftovers, credentials, dead>>

AuthTypeOK ==
    /\ TypeOK
    /\ signIn \in [Threads -> {"idle", "opening", "waiting", "exchanging", "failed"}]
    /\ server \in [Threads -> {"none", "starting", "listening", "stopping"}]
    /\ promise \in [Threads -> {"unset", "code", "error"}]
    /\ signIns \in [Threads -> 0..MaxSignIns]
    /\ orphan \in {"none", "starting", "listening"}
    /\ {dangling, gaveUp, credentials, dead} \subseteq BOOLEAN
    /\ \A t \in Threads : signIn[t] # "idle" => pc[t] = "holding"

AuthInit ==
    /\ Init
    /\ signIn = [t \in Threads |-> "idle"]
    /\ server = [t \in Threads |-> "none"]
    /\ promise = [t \in Threads |-> "unset"]
    /\ signIns = [t \in Threads |-> 0]
    /\ orphan = "none"
    /\ dangling = FALSE
    /\ gaveUp = FALSE
    /\ credentials \in BOOLEAN
    /\ dead = FALSE

Goes(t, from, to) ==
    /\ signIn[t] = from
    /\ signIn' = [signIn EXCEPT ![t] = to]

ServerGoes(t, from, to) ==
    /\ server[t] = from
    /\ server' = [server EXCEPT ![t] = to]

\* The call returns or throws: server object, promise and lambdas are gone,
\* the detached thread stays if it has not finished.
LeaveFrame(t) ==
    /\ server' = [server EXCEPT ![t] = "none"]
    /\ promise' = [promise EXCEPT ![t] = "unset"]
    /\ dangling' = (dangling \/ server[t] # "none")
    /\ orphan' = IF \/ server[t] = "listening"
                    \/ server[t] = "starting" /\ orphan = "none"
                 THEN server[t] ELSE orphan
    /\ UNCHANGED <<vars, signIns>>
------------------------------------------------------------------------------
\* The task.  ensureAuthenticated() turns to the browser; the server thread is
\* created and detached.
Begin(t) ==
    /\ pc[t] = "holding"
    /\ signIns[t] < MaxSignIns
    /\ Goes(t, "idle", "opening")
    /\ server' = [server EXCEPT ![t] = "starting"]
    /\ signIns' = [signIns EXCEPT ![t] = @ + 1]
    /\ UNCHANGED <<vars, promise, leftovers>>

\* std::thread throws system_error: there is no thread to be had.
BeginFails(t) ==
    /\ pc[t] = "holding"
    /\ signIns[t] < MaxSignIns
    /\ Goes(t, "idle", "failed")
    /\ signIns' = [signIns EXCEPT ![t] = @ + 1]
    /\ UNCHANGED <<vars, server, promise, leftovers>>

OpenBrowser(t) ==
    /\ credentials
    /\ Goes(t, "opening", "waiting")
    /\ UNCHANGED <<vars, server, promise, signIns, leftovers>>

\* The client_id is read after the thread was detached: get<std::string> throws.
CredentialsThrow(t) ==
    /\ ~credentials
    /\ Goes(t, "opening", "failed")
    /\ LeaveFrame(t)
    /\ gaveUp' = (gaveUp \/ server[t] # "none")

\* Faulty variants of GetCode: the server is not stopped; or stopped first,
\* and the code waited for afterwards.
GetCodeUnstopped(t) ==
    /\ promise[t] = "code"
    /\ Goes(t, "waiting", "exchanging")
    /\ UNCHANGED <<vars, server, promise, signIns, leftovers>>

StopThenGetCode(t) ==
    /\ \/ /\ promise[t] = "code"
          /\ Goes(t, "waiting", "exchanging")
          /\ UNCHANGED server
       \/ /\ ServerGoes(t, "listening", "stopping")
          /\ Goes(t, "waiting", "waiting")
    /\ UNCHANGED <<vars, promise, signIns, leftovers>>

\* code_future.get() returns, svr.stop().
GetCode(t) ==
    /\ promise[t] = "code"
    /\ Goes(t, "waiting", "exchanging")
    /\ ServerGoes(t, "listening", "stopping")
    /\ UNCHANGED <<vars, promise, signIns, leftovers>>

\* code_future.get() throws; svr.stop() is not reached.
GetError(t) ==
    /\ promise[t] = "error"
    /\ Goes(t, "waiting", "failed")
    /\ LeaveFrame(t)
    /\ gaveUp' = (gaveUp \/ server[t] # "none")

\* The token endpoint answers 200, or anything else, and the call throws.
Exchange(t) ==
    /\ \/ Goes(t, "exchanging", "idle")
       \/ Goes(t, "exchanging", "failed")
    /\ LeaveFrame(t)
    /\ UNCHANGED gaveUp

\* The task goes on to its upload or its handler catches the exception; both
\* ways come to release().
GiveSlotBack(t) ==
    /\ signIn[t] \in {"idle", "failed"}
    /\ Release(t)
    /\ signIn' = [signIn EXCEPT ![t] = "idle"]
    /\ signIns' = [signIns EXCEPT ![t] = 0]
    /\ UNCHANGED <<server, promise, leftovers>>

TaskStep(t) ==
    /\ ~dead
    /\ \/ Begin(t) \/ BeginFails(t) \/ OpenBrowser(t) \/ CredentialsThrow(t)
       \/ GetCode(t) \/ GetError(t) \/ Exchange(t) \/ GiveSlotBack(t)
    /\ UNCHANGED <<credentials, dead>>
------------------------------------------------------------------------------
\* The server thread.
PortFree ==
    /\ \A t \in Threads : server[t] \notin {"listening", "stopping"}
    /\ orphan # "listening"

Listen(t) ==
    /\ PortFree
    /\ ServerGoes(t, "starting", "listening")
    /\ UNCHANGED promise

\* Faulty variant of ListenFails: nobody tells the waiting call.
ListenFailsQuietly(t) ==
    /\ ServerGoes(t, "starting", "none")
    /\ UNCHANGED promise

\* The port is taken, by this program or another one.
ListenFails(t) ==
    /\ ServerGoes(t, "starting", "none")
    /\ promise' = [promise EXCEPT ![t] = "error"]

ServerLeaves(t) ==
    /\ ServerGoes(t, "stopping", "none")
    /\ UNCHANGED promise

ServerStep(t) ==
    /\ ~dead
    /\ Listen(t) \/ ListenFails(t) \/ ServerLeaves(t)
    /\ UNCHANGED <<vars, signIn, signIns, leftovers, credentials, dead>>

\* listen() gives up after it had listened.  The waiting call is told; if the
\* promise is set already, set_exception throws out of the thread.
ServerBreaks(t) ==
    /\ ~dead
    /\ ServerGoes(t, "listening", "none")
    /\ promise' = [promise EXCEPT ![t] = IF @ = "unset" THEN "error" ELSE @]
    /\ dead' = (promise[t] # "unset")
    /\ UNCHANGED <<vars, signIn, signIns, leftovers, credentials>>

\* The user grants or denies in some tab that an auth_url opened: all of them
\* redirect to the port.  The first answer is kept; set_value or set_exception
\* throws on any other, which the library turns into an answer 500.
UserAnswers(t) ==
    /\ ~dead
    /\ server[t] = "listening"
    /\ \E answer \in {"code", "error"} :
          promise' = [promise EXCEPT ![t] = IF @ = "unset" THEN answer ELSE @]
    /\ UNCHANGED <<vars, signIn, server, signIns, leftovers, credentials, dead>>

OrphanListens ==
    /\ ~dead
    /\ orphan = "starting"
    /\ PortFree
    /\ orphan' = "listening"
    /\ UNCHANGED <<vars, calls, dangling, gaveUp, credentials, dead>>

UndefinedBehaviourKills ==
    /\ ~dead
    /\ dangling
    /\ dead' = TRUE
    /\ UNCHANGED <<vars, calls, leftovers, credentials>>

AcquireStep(t) ==
    /\ ~dead
    /\ CallAcquire(t) \/ TryAcquire(t) \/ SpuriousWakeup(t)
    /\ UNCHANGED <<calls, leftovers, credentials, dead>>

AuthNext ==
    \/ \E t \in Threads :
          AcquireStep(t) \/ TaskStep(t) \/ ServerStep(t)
          \/ ServerBreaks(t) \/ UserAnswers(t)
    \/ OrphanListens
    \/ UndefinedBehaviourKills

\* Threads run and the token endpoint answers; the user need not.
GetsSlot(t) ==
    /\ ~dead
    /\ TryAcquire(t)
    /\ UNCHANGED <<calls, leftovers, credentials, dead>>

AuthFairness ==
    \A t \in Threads : /\ WF_authVars(GetsSlot(t))
                       /\ WF_authVars(TaskStep(t))
                       /\ WF_authVars(ServerStep(t))

AuthSpec == AuthInit /\ [][AuthNext]_authVars /\ AuthFairness
------------------------------------------------------------------------------
\* Nobody waits for a promise that no thread can fulfil any more: whoever is
\* in code_future.get() has its answer, or a server that is up or will say
\* that it could not start.
NobodyWaitsInVain ==
    \A t \in Threads :
        (signIn[t] = "waiting" /\ promise[t] = "unset") =>
            server[t] \in {"starting", "listening"}

\* A sign-in gives the port back, unless it was given up: a server outlives its
\* call only after a denied consent or unusable credentials.
PortReturned == orphan # "none" => gaveUp

WaitsForUser(t) ==
    signIn[t] = "waiting" /\ server[t] = "listening" /\ promise[t] = "unset"

\* Only the user can keep a slot of the Shell: again and again each task holds
\* none, or waits for an answer in the browser - whatever sign-ins fail, also
\* for want of the port.
SlotsComeBack ==
    \A t \in Threads : []<>(pc[t] # "holding" \/ WaitsForUser(t) \/ dead)

\* With sign-ins of any outcome in between, Semaphore remains the counting
\* semaphore that uploadFile programs against, for as long as the process lives.
ImplementsCounting ==
    /\ Counting!Safety
    /\ Counting!Fairness \/ <>dead

\* What the comment at the detached thread says, here with credentials in order:
\* a server that runs on independently is stopped later.
StoppedLater ==
    (credentials /\ orphan = "listening") ~> (orphan # "listening" \/ dead)
==============================================================================
