------------------------------ MODULE ModelDock -----------------------------
(***************************************************************************)
(* The model dock (modeldock): LLM profiles in SQLite with one of them     *)
(* active, the provider in memory that serves the calls                    *)
(* (ProviderManager), and the usage that calls record.                     *)
(*                                                                         *)
(* A handler changes the database first and the provider in memory after   *)
(* that, without a lock over both.  A profile is abstracted to its         *)
(* revision: what a provider made from it would call.                      *)
(***************************************************************************)
EXTENDS Naturals, FiniteSets

CONSTANTS
    Profiles,     \* profile ids (uuids)
    HasEnv,       \* a provider is configured in the environment
    Admins,       \* callers of the profile endpoints
    Calls,        \* calls of the LLM, one each
    MaxRev,       \* updates of a profile
    MaxRestarts

VARIABLES
    profiles,   \* id -> [state, active, rev]; state "none", "live" or "deleted"
    runtime,    \* ProviderManager.active: [id, rev]
    admin,      \* admin -> the handler under way
    calls,      \* call -> [step, rt]
    usage,      \* recorded [call, id]
    raced,      \* two handlers have overlapped since the start
    restarts

dockVars == <<profiles, runtime, admin, calls, usage, raced, restarts>>

NoRow == [state |-> "none", active |-> FALSE, rev |-> 0]
Env == [id |-> "env", rev |-> 0]
NoProvider == [id |-> "none", rev |-> 0]
IdleAdmin == [step |-> "idle", id |-> "none", always |-> FALSE, target |-> NoRow]

Live(id) == profiles[id].state = "live"

\* Store.GetActiveProfile.
GetActiveProfile == {id \in Profiles : Live(id) /\ profiles[id].active}

\* The rows after `UPDATE ... SET is_active = 0 WHERE is_active = 1`.
Deactivated == [id \in Profiles |-> [profiles[id] EXCEPT !.active = FALSE]]

\* Store.ActivateProfile, one transaction; no such row, no change.
Activated(id) == IF Live(id) THEN [Deactivated EXCEPT ![id].active = TRUE] ELSE profiles

\* ProviderManager.UseEnvFallback.
UseEnvFallback == IF HasEnv THEN Env ELSE NoProvider

\* ProviderManager.ActivateProfile with a row that was read.
ActivateProfile(id, row) == [id |-> id, rev |-> row.rev]

\* ProviderManager.SyncFromStore.
SyncFromStore ==
    IF GetActiveProfile = {} THEN UseEnvFallback
    ELSE LET id == CHOOSE p \in GetActiveProfile : TRUE IN ActivateProfile(id, profiles[id])

\* An admin's handler begins; it overlaps the handlers that are under way.
Enter(a, rec) ==
    /\ admin[a].step = "idle"
    /\ admin' = [admin EXCEPT ![a] = rec]
    /\ raced' = (raced \/ \E b \in Admins \ {a} : admin[b].step # "idle")

Leave(a) == admin' = [admin EXCEPT ![a] = IdleAdmin]

(***************************************************************************)
(* Handlers                                                                *)
(***************************************************************************)
\* Store.CreateProfile's transaction.
CreateProfile(a, id, activate) ==
    /\ profiles[id] = NoRow
    /\ Enter(a, [IdleAdmin EXCEPT !.step = "reread", !.id = id])
    /\ profiles' = [(IF activate THEN Deactivated ELSE profiles) EXCEPT
                       ![id] = [state |-> "live", active |-> activate, rev |-> 1]]
    /\ UNCHANGED <<runtime, calls, usage, restarts>>

\* Store.UpdateProfile's UPDATE.
UpdateProfile(a, id, activate) ==
    /\ Live(id) /\ profiles[id].rev < MaxRev
    /\ Enter(a, [IdleAdmin EXCEPT !.step = IF activate THEN "activate" ELSE "reread", !.id = id])
    /\ profiles' = [profiles EXCEPT ![id].rev = @ + 1]
    /\ UNCHANGED <<runtime, calls, usage, restarts>>

\* The transaction of ActivateProfile, called by UpdateProfile.
ActivateUpdated(a) ==
    /\ admin[a].step = "activate"
    /\ profiles' = Activated(admin[a].id)
    /\ IF Live(admin[a].id) THEN admin' = [admin EXCEPT ![a].step = "reread"] ELSE Leave(a)
    /\ UNCHANGED <<runtime, calls, usage, raced, restarts>>

\* HandleActivateProfile: the same transaction, then GetProfile.
HandleActivateProfile(a, id) ==
    /\ Live(id)
    /\ Enter(a, [IdleAdmin EXCEPT !.step = "reread", !.id = id, !.always = TRUE])
    /\ profiles' = Activated(id)
    /\ UNCHANGED <<runtime, calls, usage, restarts>>

\* GetProfile at the end of the store's calls; an inactive profile ends the
\* handler (HandleActivateProfile hands it to the manager all the same).
Reread(a) ==
    /\ admin[a].step = "reread"
    /\ IF Live(admin[a].id) /\ (profiles[admin[a].id].active \/ admin[a].always)
       THEN admin' = [admin EXCEPT ![a].step = "apply", ![a].target = profiles[admin[a].id]]
       ELSE Leave(a)
    /\ UNCHANGED <<profiles, runtime, calls, usage, raced, restarts>>

\* Mutant: only the activation endpoint replaces the provider.
ApplyActivationsOnly(a) ==
    /\ admin[a].step = "apply"
    /\ runtime' = IF admin[a].always THEN ActivateProfile(admin[a].id, admin[a].target) ELSE runtime
    /\ Leave(a)
    /\ UNCHANGED <<profiles, calls, usage, raced, restarts>>

\* The handlers' last step: the provider in memory is replaced.
Apply(a) ==
    /\ admin[a].step = "apply"
    /\ runtime' = ActivateProfile(admin[a].id, admin[a].target)
    /\ Leave(a)
    /\ UNCHANGED <<profiles, calls, usage, raced, restarts>>

\* HandleDeleteProfile up to DeleteProfile: the only active profile stays when
\* there is nothing to fall back to.
CheckDelete(a, id) ==
    /\ Live(id)
    /\ profiles[id].active => HasEnv \/ GetActiveProfile \ {id} # {}
    /\ Enter(a, [IdleAdmin EXCEPT !.step = "delete", !.id = id, !.target = profiles[id]])
    /\ UNCHANGED <<profiles, runtime, calls, usage, restarts>>

DeleteProfile(a) ==
    /\ admin[a].step = "delete"
    /\ profiles' = [profiles EXCEPT ![admin[a].id] = [NoRow EXCEPT !.state = "deleted"]]
    /\ IF Live(admin[a].id) /\ admin[a].target.active
       THEN admin' = [admin EXCEPT ![a].step = "fallback"] ELSE Leave(a)
    /\ UNCHANGED <<runtime, calls, usage, raced, restarts>>

\* The provider after the deletion of the active profile.
Fallback(a) ==
    /\ admin[a].step = "fallback"
    /\ runtime' = SyncFromStore
    /\ Leave(a)
    /\ UNCHANGED <<profiles, calls, usage, raced, restarts>>

(***************************************************************************)
(* Calls                                                                   *)
(***************************************************************************)
\* featureProvider.Complete: the provider is fixed here.
StartCall(k) ==
    /\ calls[k].step = "idle" /\ runtime # NoProvider
    /\ calls' = [calls EXCEPT ![k] = [step |-> "called", rt |-> runtime]]
    /\ UNCHANGED <<profiles, runtime, admin, usage, raced, restarts>>

\* The answer (or its failure, which records nothing) and RecordUsage.
EndCall(k) ==
    /\ calls[k].step = "called"
    /\ \E answered \in BOOLEAN :
           usage' = IF answered THEN usage \cup {[call |-> k, id |-> calls[k].rt.id]} ELSE usage
    /\ calls' = [calls EXCEPT ![k].step = "done"]
    /\ UNCHANGED <<profiles, runtime, admin, raced, restarts>>

\* NewProviderManager and SyncFromStore at the start of the server.
Restart ==
    /\ restarts < MaxRestarts /\ restarts' = restarts + 1
    /\ runtime' = SyncFromStore
    /\ admin' = [a \in Admins |-> IdleAdmin]
    /\ calls' = [k \in Calls |-> IF calls[k].step = "called" THEN [calls[k] EXCEPT !.step = "done"] ELSE calls[k]]
    /\ raced' = FALSE
    /\ UNCHANGED <<profiles, usage>>

Init ==
    /\ profiles = [id \in Profiles |-> NoRow]
    /\ runtime = UseEnvFallback
    /\ admin = [a \in Admins |-> IdleAdmin]
    /\ calls = [k \in Calls |-> [step |-> "idle", rt |-> NoProvider]]
    /\ usage = {} /\ raced = FALSE /\ restarts = 0

Next ==
    \/ \E a \in Admins :
           \/ \E id \in Profiles :
                  \/ \E activate \in BOOLEAN : CreateProfile(a, id, activate) \/ UpdateProfile(a, id, activate)
                  \/ HandleActivateProfile(a, id) \/ CheckDelete(a, id)
           \/ ActivateUpdated(a) \/ Reread(a) \/ Apply(a) \/ DeleteProfile(a) \/ Fallback(a)
    \/ \E k \in Calls : StartCall(k) \/ EndCall(k)
    \/ Restart

Spec == Init /\ [][Next]_dockVars

\* With no handler under way, the provider that serves calls is made from the
\* current revision of the active profile, or is the one of the environment, or
\* none: whatever was created, updated, activated or deleted before, unless two
\* handlers overlapped (their database and memory steps may cross, and nothing
\* but a restart reconciles them).
RuntimeFollowsDatabase ==
    (\A a \in Admins : admin[a].step = "idle") /\ ~raced => runtime = SyncFromStore
=============================================================================
