---------------------------- MODULE WelcomeFlow ----------------------------
(***************************************************************************)
(* cmd/createuser creates an account and then tells Inngest of it; Inngest *)
(* calls the server back at /api/inngest to run the welcome flow           *)
(* (flows/welcome.go): a recorded step, a sleep of a day, a recorded step. *)
(*                                                                         *)
(* Inngest keeps what a step returned once its answer arrives, and calls   *)
(* the function again when it does not, up to Retries times a step.        *)
(***************************************************************************)
EXTENDS Integers

CONSTANTS
    Clis,           \* runs of createuser
    Addresses,
    Retries,        \* FunctionOpts.Retries
    NoAddress

VARIABLES
    users,      \* the addresses that have an account: lower(email) is unique
    cli,        \* where each createuser stands
    address,    \* its -email
    flow,       \* the step Inngest is to run for its event
    tries,      \* failed calls of that step
    made,       \* history: the runs whose insert committed
    welcomed    \* history: the runs whose welcome mail was sent

cliVars  == <<cli, address, made>>
flowRuns == <<flow, tries, welcomed>>
flowVars == <<users, cliVars, flowRuns>>

FlowInit ==
    /\ cli = [c \in Clis |-> "idle"]
    /\ address = [c \in Clis |-> NoAddress]
    /\ flow = [c \in Clis |-> "none"]
    /\ tries = [c \in Clis |-> 0]
    /\ made = {}
    /\ welcomed = {}

-----------------------------------------------------------------------------

Exits(c, from, to) ==
    /\ cli[c] = from
    /\ cli' = [cli EXCEPT ![c] = to]

\* run up to db.Configure and the hash of auth.CreateTx, which refuses an
\* empty address or a password outside the policy.
Hash(c, a) ==
    /\ cli[c] = "idle"
    /\ address' = [address EXCEPT ![c] = a]
    /\ \E to \in {"hashed", "refused"} : Exits(c, "idle", to)
    /\ UNCHANGED <<users, flowRuns, made>>

\* The INSERT: ErrEmailTaken from the unique index, or an account.
Insert(c) ==
    /\ \/ address[c] \notin users /\ Exits(c, "hashed", "created") /\ made' = made \cup {c}
       \/ address[c] \in users /\ Exits(c, "hashed", "refused") /\ UNCHANGED made
    /\ users' = users \cup {address[c]}
    /\ UNCHANGED <<address, flowRuns>>

\* It fails, answered or not: exit 1 and no event.
InsertFails(c) ==
    /\ Exits(c, "hashed", "refused")
    /\ users' \in {users, users \cup {address[c]}}
    /\ made' = IF users' = users THEN made ELSE made \cup {c}
    /\ UNCHANGED <<address, flowRuns>>

\* flows.Configure and flows.Send, best effort: the event may not arrive, and
\* a Send whose answer is lost may have arrived.
SendAnyway(c) ==  \* (fault)
    /\ cli[c] \in {"created", "refused"}
    /\ Exits(c, cli[c], "done")
    /\ flow' = [flow EXCEPT ![c] = "welcome"]
    /\ UNCHANGED <<users, address, made, tries, welcomed>>

Send(c) ==
    /\ Exits(c, "created", "done")
    /\ flow' \in {flow, [flow EXCEPT ![c] = "welcome"]}
    /\ UNCHANGED <<users, address, made, tries, welcomed>>

-----------------------------------------------------------------------------
(* The function, called by Inngest.  A call replays the recorded steps and *)
(* runs the next one.                                                      *)

Recorded(c, from, to) ==
    /\ flow[c] = from
    /\ flow' = [flow EXCEPT ![c] = to]
    /\ tries' = [tries EXCEPT ![c] = 0]

\* The step's error, the server's death or a lost answer: once more, or never.
Retried(c) ==
    /\ tries' = [tries EXCEPT ![c] = IF @ < Retries THEN @ + 1 ELSE 0]
    /\ flow' = [flow EXCEPT ![c] = IF tries[c] < Retries THEN @ ELSE "failed"]

SendWelcome(c) ==
    /\ flow[c] = "welcome"
    /\ Recorded(c, "welcome", "asleep") \/ Retried(c)
    /\ welcomed' = welcomed \cup {c}
    /\ UNCHANGED <<users, cliVars>>

StepFails(c) ==
    /\ flow[c] \in {"welcome", "followup"}
    /\ Retried(c)
    /\ UNCHANGED <<users, cliVars, welcomed>>

Sleep(c) ==
    /\ Recorded(c, "asleep", "followup")
    /\ UNCHANGED <<users, cliVars, welcomed>>

FollowUp(c) ==
    /\ Recorded(c, "followup", "done")
    /\ UNCHANGED <<users, cliVars, welcomed>>

Called(c) == SendWelcome(c) \/ StepFails(c) \/ FollowUp(c)

-----------------------------------------------------------------------------

FlowTypeOK ==
    /\ cli \in [Clis -> {"idle", "hashed", "created", "refused", "done"}]
    /\ address \in [Clis -> Addresses \cup {NoAddress}]
    /\ flow \in [Clis -> {"none", "welcome", "asleep", "followup", "done", "failed"}]
    /\ tries \in [Clis -> 0..Retries]
    /\ made \subseteq Clis
    /\ welcomed \subseteq Clis

\* Nobody is welcomed to an account that was never committed, however the two
\* createuser runs for one address race, and a follow-up is a follow-up: its
\* welcome went out, whatever calls were lost and repeated in between.
WelcomeFollowsAccount ==
    /\ welcomed \subseteq made
    /\ \A c \in Clis : flow[c] \in {"followup", "done"} => c \in welcomed
=============================================================================
