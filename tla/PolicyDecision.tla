---------------------------- MODULE PolicyDecision ----------------------------
(***************************************************************************)
(* What a policy can decide, and what observe mode makes of a decision:    *)
(* the part of packages/policy-core that the SDKs and the audit log share. *)
(***************************************************************************)

Decision == {"allow", "block", "require_approval", "log_only"}

Mode == {"enforce", "observe"}

(* The decisions under which the SDK enters the callback.                  *)
Permits == {"allow", "log_only"}

(* The decision that is applied: in observe mode a refusal is only         *)
(* observed, and the call is allowed.                                      *)
EffectiveDecision(mode, observed) ==
    IF mode = "observe" /\ observed \in {"block", "require_approval"}
    THEN "allow"
    ELSE observed

=============================================================================
