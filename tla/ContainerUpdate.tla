--------------------------- MODULE ContainerUpdate ---------------------------
(***************************************************************************)
(* What a deploy does to the definition of the main container: its image   *)
(* tag, the standard env vars, the env vars that the user gives with the   *)
(* deploy and the OpenTelemetry resource attributes, in that order, each   *)
(* platform with rules of its own.                                         *)
(*                                                                         *)
(* Of the env vars three are told apart: "version" for the standard ones   *)
(* (NULLSTONE_VERSION, NULLSTONE_COMMIT_SHA), "otel" for the version in    *)
(* OTEL_RESOURCE_ATTRIBUTES, and "extra" for any other.  Their values:     *)
(* absent, backed by a secret, a $(...) expansion, the user's, or a        *)
(* version.                                                                *)
(***************************************************************************)
EXTENDS Naturals, Sequences

VarNames == {"version", "otel", "extra"}

(* The env vars are a function from VarNames to values.                    *)
Absent == "absent"
Secret == "secret"
Expansion == "expansion"
UserValue == "user"

(* The rules: whether a standard env var is added when it is missing,      *)
(* whether the user's are applied, what becomes of the OpenTelemetry       *)
(* attributes, and whether the repository in the outputs replaces that of  *)
(* the container's image.                                                  *)
CloudRunRules  == [adds |-> FALSE, user |-> TRUE,  otel |-> "replaced", ownRepo |-> TRUE]
AcaRules       == [adds |-> FALSE, user |-> TRUE,  otel |-> "kept",     ownRepo |-> TRUE]
K8sRules       == [adds |-> FALSE, user |-> TRUE,  otel |-> "expanded", ownRepo |-> FALSE]
EcsRules       == [adds |-> FALSE, user |-> TRUE,  otel |-> "replaced", ownRepo |-> FALSE]
BatchRules     == [adds |-> FALSE, user |-> TRUE,  otel |-> "replaced", ownRepo |-> FALSE]
FunctionsRules == [adds |-> TRUE,  user |-> FALSE, otel |-> "replaced", ownRepo |-> TRUE]
ComposerRules  == [adds |-> FALSE, user |-> FALSE, otel |-> "replaced", ownRepo |-> TRUE]

(* Mutant of the replacement: it adds what is missing.                     *)
ReplaceStandardAdding(rules, env, v) ==
  IF env["version"] = Secret THEN env ELSE [env EXCEPT !["version"] = v]

(* ReplaceEnvVars, UpdateStandard: only what is there, unless the rules    *)
(* add it, and no reference to a secret is replaced.                       *)
ReplaceStandard(rules, env, v) ==
  IF env["version"] = Secret \/ (env["version"] = Absent /\ ~rules.adds)
  THEN env
  ELSE [env EXCEPT !["version"] = v]

(* ApplyUserEnvVars adds or replaces, references to secrets too.           *)
ApplyUser(rules, env, names) ==
  IF ~rules.user THEN env
  ELSE [n \in VarNames |-> IF n \in names THEN UserValue ELSE env[n]]

(* Mutant: the attributes are left alone.                                  *)
ReplaceOtelNever(rules, env, v) == env

(* Only Kubernetes expands $(...), and leaves such a value alone.          *)
ReplaceOtel(rules, env, v) ==
  IF \/ env["otel"] \in {Absent, Secret}
     \/ rules.otel = "expanded" /\ env["otel"] = Expansion
     \/ rules.otel = "kept"
  THEN env
  ELSE [env EXCEPT !["otel"] = v]

(* An image is what follows its repository: tags, each after a ":", and    *)
(* whether a digest follows after a "@".  ParseImageUrl looks for a tag    *)
(* only in an image without a digest; otherwise the tag stays a part of    *)
(* the repository.                                                         *)
ImageRepo(image) == IF image.digest THEN image.tags ELSE <<>>
ImageTag(v) == [tags |-> <<v>>, digest |-> FALSE]
ImageDigest == [tags |-> <<>>, digest |-> TRUE]

(* SetContainerImageTag, ReplaceTaskImageTag: the digest is dropped, the   *)
(* tag replaced and the image put together again.                          *)
Retagged(rules, image, v, repoInOutputs) ==
  [tags   |-> (IF rules.ownRepo /\ repoInOutputs THEN <<>> ELSE ImageRepo(image)) \o <<v>>,
   digest |-> FALSE]

UpdatedEnv(rules, env, v, userNames) ==
  ReplaceOtel(rules, ApplyUser(rules, ReplaceStandard(rules, env, v), userNames), v)

(* Which of n containers is the main one, named main in the outputs; a     *)
(* name of 0 stands for no name, and 0 as the result for none.             *)
NamedContainer(n, main) == IF main \in 1..n THEN main ELSE 0
AcaMainContainer(n, main) == IF main = 0 /\ n > 0 THEN 1 ELSE NamedContainer(n, main)
EcsMainContainer(n, main) == IF n = 1 THEN 1 ELSE NamedContainer(n, main)

(* The env vars that a Terraform plan may have made.                       *)
PlannedEnvs(v0) ==
  { [n \in VarNames |-> CASE n = "version" -> v0     [] n = "otel" -> v0        [] OTHER -> Secret],
    [n \in VarNames |-> CASE n = "version" -> Absent [] n = "otel" -> Expansion [] OTHER -> Absent],
    [n \in VarNames |-> CASE n = "version" -> Secret [] n = "otel" -> Secret    [] OTHER -> UserValue] }

(* The version that an env var tells, if it tells one.                     *)
Told(env, versions) == {env["version"], env["otel"]} \cap versions
=============================================================================
