------------------------------- MODULE CodexLogin ------------------------------
(***************************************************************************)
(* Signing in to the model (studio_agent/codex.py, and the routes under    *)
(* /api/status/astra/login): the control plane starts the CLI's own login  *)
(* command, relays the link it prints, and is polled until the CLI ends.   *)
(*                                                                         *)
(* The routes are synchronous, so each request has a thread of its own.    *)
(* _login and _login_process are changed under _login_lock; begin_login    *)
(* lets go of it while it reads what the CLI prints, and takes it again to *)
(* conclude.  A session object belongs to the attempt that made it and is  *)
(* written by several threads.                                             *)
(***************************************************************************)
CONSTANTS Attempts   \* calls of begin_login

VARIABLES
  account,    \* what `codex login status` would say
  login,      \* _login: the attempt whose session is shown, if there is one
  child,      \* _login_process: the attempt whose CLI is watched, if there is one
  caller,     \* where each call of begin_login has got to
  session,    \* the state shown of each attempt
  device,     \* whether the attempt uses the device code
  printed,    \* what begin_login has read of the CLI's instructions
  cli         \* the CLI's process, by attempt

loginVars == <<account, login, child, caller, session, device, printed, cli>>

-------------------------------------------------------------------------------
Accounts == {"none", "chatgpt", "key"}
Waiting == {"starting", "waiting"}

(* status: signed in, and not with a key. *)
Connected == account = "chatgpt"

(* What the user must be told before there is something to do. *)
Ready(seen, byCode) == seen = "all" \/ (seen = "link" /\ ~byCode)

LoginInit ==
  /\ account \in Accounts
  /\ login = {} /\ child = {}
  /\ caller = [a \in Attempts |-> "idle"]
  /\ session = [a \in Attempts |-> "idle"]
  /\ device = [a \in Attempts |-> FALSE]
  /\ printed = [a \in Attempts |-> "nothing"]
  /\ cli = [a \in Attempts |-> "none"]

-------------------------------------------------------------------------------
(* cancel_login, as it changes the processes and the sessions: what is       *)
(* watched is terminated, what is shown is cancelled if it still waits.      *)
Terminated(processes) ==
  [a \in Attempts |-> IF a \in child /\ processes[a] = "running" THEN "exited"
                                                               ELSE processes[a]]
Cancelled(sessions) ==
  [a \in Attempts |-> IF a \in login /\ sessions[a] \in Waiting THEN "cancelled"
                                                              ELSE sessions[a]]

(* DELETE /astra/login. *)
CancelLogin ==
  /\ cli' = Terminated(cli)
  /\ session' = Cancelled(session)
  /\ child' = {}
  /\ UNCHANGED <<account, login, caller, device, printed>>

(* begin_login up to the lock: an account that is signed in needs nothing. *)
CheckLogin(a, byCode) ==
  /\ caller[a] = "idle"
  /\ caller' = [caller EXCEPT ![a] = IF Connected THEN "returned" ELSE "checked"]
  /\ device' = [device EXCEPT ![a] = byCode]
  /\ session' = [session EXCEPT ![a] = IF Connected THEN "complete" ELSE @]
  /\ UNCHANGED <<account, login, child, printed, cli>>

(* begin_login under the lock: the last attempt is abandoned for this one. *)
SpawnLogin(a) ==
  /\ caller[a] = "checked"
  /\ caller' = [caller EXCEPT ![a] = "reading"]
  /\ session' = [Cancelled(session) EXCEPT ![a] = "starting"]
  /\ cli' = [Terminated(cli) EXCEPT ![a] = "running"]
  /\ login' = {a} /\ child' = {a}
  /\ UNCHANGED <<account, device, printed>>

(* The CLI could not be started: OSError. *)
SpawnFails(a) ==
  /\ caller[a] = "checked"
  /\ caller' = [caller EXCEPT ![a] = "raised"]
  /\ session' = [Cancelled(session) EXCEPT ![a] = "failed"]
  /\ cli' = Terminated(cli)
  /\ login' = {a} /\ child' = {}
  /\ UNCHANGED <<account, device, printed>>

(* A line of instructions is read, without the lock; what the CLI has         *)
(* printed can be read after it was ended.                                    *)
ReadLine(a, seen) ==
  /\ caller[a] = "reading"
  /\ \/ printed[a] = "nothing"
     \/ printed[a] = "link" /\ seen = "all" /\ device[a]
  /\ printed' = [printed EXCEPT ![a] = seen]
  /\ IF Ready(seen, device[a])
       THEN /\ caller' = [caller EXCEPT ![a] = "returned"]
            /\ session' = [session EXCEPT ![a] = "waiting"]
       ELSE UNCHANGED <<caller, session>>
  /\ UNCHANGED <<account, login, child, device, cli>>

(* The CLI has ended and all it said is read, or the deadline has passed. *)
StopReading(a) ==
  /\ caller[a] = "reading"
  /\ caller' = [caller EXCEPT ![a] = "deciding"]
  /\ UNCHANGED <<account, login, child, session, device, printed, cli>>

(* begin_login's end, under the lock again: a link is enough to go on.       *)
(* Without one the attempt has failed, and cancel_login is called.           *)
ConcludeLogin(a) ==
  /\ caller[a] = "deciding"
  /\ IF printed[a] # "nothing"
       THEN /\ caller' = [caller EXCEPT ![a] = "returned"]
            /\ session' = [session EXCEPT ![a] = "waiting"]
            /\ UNCHANGED <<child, cli>>
       ELSE /\ caller' = [caller EXCEPT ![a] = "raised"]
            /\ session' = Cancelled([session EXCEPT ![a] = "failed"])
            /\ cli' = Terminated(cli)
            /\ child' = {}
  /\ UNCHANGED <<account, login, device, printed>>

(* login_session: once the CLI is over, the status says how it ended. *)
PollLogin ==
  /\ \E a \in child : cli[a] = "exited"
  /\ session' = [a \in Attempts |-> IF a \notin login THEN session[a]
                                    ELSE IF Connected THEN "complete" ELSE "failed"]
  /\ child' = {}
  /\ UNCHANGED <<account, login, caller, device, printed, cli>>

-------------------------------------------------------------------------------
(* The user authorises the studio; the CLI stores the sign-in and ends. *)
Authorise(a) ==
  /\ cli[a] = "running" /\ printed[a] # "nothing"
  /\ account' = "chatgpt"
  /\ cli' = [cli EXCEPT ![a] = "exited"]
  /\ UNCHANGED <<login, child, caller, session, device, printed>>

(* The CLI gives up by itself. *)
CliEnds(a) ==
  /\ cli[a] = "running"
  /\ cli' = [cli EXCEPT ![a] = "exited"]
  /\ UNCHANGED <<account, login, child, caller, session, device, printed>>

(* `codex logout` in a terminal. *)
SignOut ==
  /\ account # "none" /\ account' = "none"
  /\ UNCHANGED <<login, child, caller, session, device, printed, cli>>

Begin(a) ==
  \/ \E byCode \in BOOLEAN : CheckLogin(a, byCode)
  \/ SpawnLogin(a) \/ SpawnFails(a)
  \/ \E seen \in {"link", "all"} : ReadLine(a, seen)
  \/ StopReading(a) \/ ConcludeLogin(a)

LoginNext ==
  \/ CancelLogin \/ PollLogin \/ SignOut
  \/ \E a \in Attempts : Begin(a) \/ Authorise(a) \/ CliEnds(a)

LoginSpec == LoginInit /\ [][LoginNext]_loginVars

-------------------------------------------------------------------------------
(* Properties. *)

(* "A second attempt supersedes the first" (codex.py:254): an attempt that   *)
(* gives up ends no other one.  The code calls cancel_login for whatever     *)
(* attempt is watched by then.                                               *)
GivingUpEndsOnlyItself ==
  [][\A a, b \in Attempts :
       caller[a] = "deciding" /\ caller'[a] = "raised" /\ cli[b] = "running"
         => a = b \/ cli'[b] = "running"]_loginVars

(* "One at a time, because two concurrent callback servers would fight over  *)
(* the same port" (codex.py:254): two CLIs never run together, and the one   *)
(* that runs is watched and is that of the session the user is shown.        *)
OneCallbackServer ==
  \A a \in Attempts : cli[a] = "running" => child = {a} /\ login = {a}
===============================================================================
