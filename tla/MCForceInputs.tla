--------------------------- MODULE MCForceInputs ---------------------------
(***************************************************************************)
(* What forces are made of, for TLC: either histories are recorded into    *)
(* (Histories), or a simulator is built and its force models are evaluated *)
(* with its histories and tables (Construction), or with waves and remote  *)
(* models (RemoteModels).                                                  *)
(***************************************************************************)
EXTENDS MCConstruction, MCRemoteModels, MCHistories

NoSea ==
  /\ mode = "none"
  /\ sea = [kind |-> "none", spectra |-> <<>>] /\ fleet = <<>>
  /\ at = <<1, 0>> /\ evaluation = 0
  /\ needs = <<>> /\ heights = NoHeights /\ immersions = <<>>
  /\ waves = <<>> /\ force = <<>> /\ extra = <<>>
  /\ row = [first |-> TRUE] /\ threw = FALSE /\ wrong = Fine

NoInput ==
  /\ bodies = <<>> /\ pc = "none" /\ lengths = <<>> /\ known = 0 /\ blocked = <<>>
  /\ date = 0 /\ forces = <<>> /\ velocity = <<>>

NoHistory == h = [o \in Objects |-> NewHistory(0)] /\ raised = FALSE

ForceInit ==
  \/ BuildInit /\ NoSea /\ NoHistory
  \/ NoInput /\ RemoteInit /\ NoHistory
  \/ NoInput /\ NoSea /\ Init

ForceNext ==
  \/ pc # "none" /\ BuildNext /\ UNCHANGED <<remoteVars, vars>>
  \/ mode # "none" /\ RemoteNext /\ UNCHANGED <<buildVars, vars>>
  \/ pc = "none" /\ mode = "none" /\ Next /\ UNCHANGED <<buildVars, remoteVars>>

ForceSpec == ForceInit /\ [][ForceNext]_<<buildVars, remoteVars, vars>>
=============================================================================
