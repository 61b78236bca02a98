----------------------------- MODULE MCMeasurement ----------------------------
(***************************************************************************)
(* Two declared Rust toolchains and the Nim compiler, and a rustc that     *)
(* nobody declared.                                                        *)
(***************************************************************************)
EXTENDS Measurement

MCPaths    == {"stable", "nightly", "custom", "nim"}
MCDeclared == {"stable", "nightly", "nim"}

(* A second compiler, declared, and one that is the same but elsewhere.    *)
MCInstalled ==
  {[at |-> [stable |-> "1", nightly |-> "2", custom |-> "1", nim |-> "1"], selected |-> "stable"]}

MCMachines == [first |-> {"here"}, others |-> {"there", None}]

MCScenarios ==
  ({"rust-heavy-workspace"} \X Labels) \cup ({"nim-heavy-workspace"} \X {"Cold", "TrueNoop"})
=============================================================================
