------------------------------ MODULE Binding ------------------------------
(***************************************************************************)
(* The hosted mint (MintDO) serves only after it verified that its unit's  *)
(* token, its vault and its fee belong together.  The check reads the      *)
(* chain call by call; requests share one check, and a failure is retried  *)
(* by the next request.  An instance can outlive a deploy that binds       *)
(* another vault: the next request then aborts it.                         *)
(***************************************************************************)
EXTENDS Integers

CONSTANTS
  Requests,
  Vaults,      \* deposit addresses that deploys bind
  Token,       \* the token of the mint's unit
  MeltFee,     \* the configured melt fee
  VaultFacts,  \* VaultFacts[v]: what the chain says of a deposit address
  MaxDeploys,  \* bound on deploys
  MaxFaults    \* bound on failing calls

VARIABLES
  env,       \* the vault the deployment binds now
  config,    \* the vault this instance was built with
  verified,  \* the shared check: none, the call it is at, or ok
  blind,     \* the read of the fee's ceiling failed and was passed over
  call,      \* call[r]: idle, waiting for the check, or being served
  bound,     \* bound[r]: what the deployment bound when r arrived
  deploys, faults

vars == <<env, config, verified, blind, call, bound, deploys, faults>>

Steps == {"code", "vault", "ceiling"}
NoCeiling == -1

(* hasCode: the address is a contract; token: what its token() answers,    *)
(* ceiling: its maxMeltFee, NoCeiling for a vault that predates it.        *)
TypeOK ==
  /\ env \in Vaults /\ config \in Vaults
  /\ verified \in Steps \cup {"none", "ok"}
  /\ blind \in BOOLEAN
  /\ call \in [Requests -> {"idle", "waits", "served"}]
  /\ bound \in [Requests -> Vaults]
  /\ deploys \in Nat /\ faults \in Nat

Build(v) ==
  /\ config' = v
  /\ verified' = "none"
  /\ blind' = FALSE

Init ==
  /\ env \in Vaults
  /\ config = env /\ verified = "none" /\ blind = FALSE
  /\ call = [r \in Requests |-> "idle"]
  /\ bound = [r \in Requests |-> env]
  /\ deploys = 0 /\ faults = 0

Deploy(v) ==
  /\ deploys < MaxDeploys
  /\ v # env
  /\ env' = v
  /\ deploys' = deploys + 1
  /\ UNCHANGED <<config, verified, blind, call, bound, faults>>

(* Defect: an instance goes on under another binding.                      *)
FetchAnyway(r) ==
  /\ call[r] = "idle"
  /\ verified' = IF verified = "none" THEN "code" ELSE verified
  /\ call' = [call EXCEPT ![r] = "waits"]
  /\ bound' = [bound EXCEPT ![r] = env]
  /\ UNCHANGED <<env, config, blind, deploys, faults>>

(* fetch: an instance of another binding aborts, with all its requests;    *)
(* otherwise the request joins the check, starts it, or is served.         *)
Fetch(r) ==
  /\ call[r] = "idle"
  /\ IF env # config
     THEN /\ Build(env)
          /\ call' = [q \in Requests |-> "idle"]
          /\ UNCHANGED bound
     ELSE /\ verified' = IF verified = "none" THEN "code" ELSE verified
          /\ call' = [call EXCEPT ![r] = "waits"]
          /\ bound' = [bound EXCEPT ![r] = env]
          /\ UNCHANGED <<config, blind>>
  /\ UNCHANGED <<env, deploys, faults>>

Facts == VaultFacts[config]

(* The check rejects: verified is reset and every waiting request answers  *)
(* 503.                                                                    *)
Rejects ==
  /\ verified' = "none"
  /\ call' = [q \in Requests |-> IF call[q] = "waits" THEN "idle" ELSE call[q]]

(* The unit's token answers as a TIP-20, and the deposit address is read.  *)
ReadCode ==
  /\ verified = "code"
  /\ verified' = IF Facts.hasCode THEN "vault" ELSE "ok"
  /\ UNCHANGED <<env, config, blind, call, bound, deploys, faults>>

ReadToken ==
  /\ verified = "vault"
  /\ IF Facts.token # Token
     THEN Rejects
     ELSE verified' = "ceiling" /\ UNCHANGED call
  /\ UNCHANGED <<env, config, blind, bound, deploys, faults>>

ReadCeiling ==
  /\ verified = "ceiling"
  /\ IF Facts.ceiling # NoCeiling /\ MeltFee > Facts.ceiling
     THEN Rejects
     ELSE verified' = "ok" /\ UNCHANGED call
  /\ UNCHANGED <<env, config, blind, bound, deploys, faults>>

(* A call fails for good.  Only the ceiling's read is caught: the vault is *)
(* then taken for one without a ceiling.                                   *)
CallFails ==
  /\ verified \in Steps
  /\ faults < MaxFaults
  /\ faults' = faults + 1
  /\ IF verified = "ceiling"
     THEN verified' = "ok" /\ blind' = TRUE /\ UNCHANGED call
     ELSE Rejects /\ UNCHANGED blind
  /\ UNCHANGED <<env, config, bound, deploys>>

Serve(r) ==
  /\ call[r] = "waits" /\ verified = "ok"
  /\ call' = [call EXCEPT ![r] = "served"]
  /\ UNCHANGED <<env, config, verified, blind, bound, deploys, faults>>

Answers(r) ==
  /\ call[r] = "served"
  /\ call' = [call EXCEPT ![r] = "idle"]
  /\ UNCHANGED <<env, config, verified, blind, bound, deploys, faults>>

Next ==
  \/ \E v \in Vaults : Deploy(v)
  \/ ReadCode \/ ReadToken \/ ReadCeiling \/ CallFails
  \/ \E r \in Requests : Fetch(r) \/ Serve(r) \/ Answers(r)

Spec == Init /\ [][Next]_vars

Sound(v) ==
  VaultFacts[v].hasCode =>
    /\ VaultFacts[v].token = Token
    /\ VaultFacts[v].ceiling # NoCeiling => MeltFee <= VaultFacts[v].ceiling

(* A request is served by the vault that was bound when it arrived, and    *)
(* that vault was found to hold the unit's token and to allow the fee,     *)
(* however deploys, shared checks and failing calls interleave             *)
(* (worker.ts:64-93, vault-tempo.ts:107-153).  A ceiling that could not be *)
(* read passes for none.                                                   *)
ServesVerified ==
  \A r \in Requests : call[r] = "served" =>
    config = bound[r] /\ (Sound(config) \/ (blind /\ VaultFacts[config].token = Token))
=============================================================================
