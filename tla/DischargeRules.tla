--------------------------- MODULE DischargeRules ---------------------------
(***************************************************************************)
(* The vocabulary that the resolver, the integrity check and the lifecycle *)
(* of obligations share (crates/laminaria-plan/src/dependency_graph.rs).   *)
(***************************************************************************)
EXTENDS Integers

Compilers == {"CompileRustObject", "CompileNimStaticLibrary", "CompileCObject",
              "CompileCppAdapterObject"}
ActionKinds == Compilers \cup {"ArchiveStaticLibrary", "LinkNativeExecutable",
                               "PreflightRuntimeContract", "PublishProvenance"}

(* The obligations without an action that a resolver's decision closes.    *)
ResolverOwned == {"NativeExecutableDemand", "PackageSelection", "SourceModule",
                  "SemanticFfi", "Lowering", "AbiTarget", "Symbol"}
Kinds == ResolverOwned \cup
         {"ArtifactProduction", "LinkOrder", "FinalLink", "Runtime", "Provenance"}

(* discharge_kind_allowed.                                                 *)
Dischargeable ==
  [kind \in ActionKinds |->
     CASE kind \in Compilers \cup {"ArchiveStaticLibrary"} -> {"ArtifactProduction"}
       [] kind = "LinkNativeExecutable"     -> {"FinalLink", "LinkOrder", "ArtifactProduction"}
       [] kind = "PreflightRuntimeContract" -> {"Runtime"}
       [] kind = "PublishProvenance"        -> {"Provenance"}]

States == {"Unresolved", "Selected", "Satisfied", "Discharged",
           "Externalized", "ProvenIrrelevant", "Rejected"}

(* is_g2_dischargeable; is_g1_terminal also allows Rejected.               *)
Chosen == {"Selected", "Satisfied"}

(* What a set reaches in at most so many steps.                            *)
Closure(start, Successors(_), bound) ==
  LET from[n \in Nat] ==
        IF n = 0 THEN start ELSE UNION {{x} \cup Successors(x) : x \in from[n-1]}
  IN from[bound]
=============================================================================
