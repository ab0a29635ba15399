------------------------------ MODULE Selection ------------------------------
(***************************************************************************)
(* Which model, which engine and which device a command gets: `resolve_for`*)
(* and `select_profile` of crates/spqx-cli/src/models.rs, `select_backend`,*)
(* `ggml_device` and the loaders of crates/spqx-core/src/synthesis.rs, and *)
(* what ggml.rs and voice_design.rs ask of the checkpoint.                 *)
(*                                                                         *)
(* The code refuses rather than to substitute.  These are its choices as   *)
(* operators; NoSubstitution compares what comes of them, one after the    *)
(* other, with what was asked for, over every configuration and build.     *)
(*                                                                         *)
(* What lies at a path is its form and the checkpoint it holds; a GGUF     *)
(* directory is one with the Base talker's file name in it.  A build is    *)
(* the set of the engines compiled in.  Failed stands for any error.       *)
(***************************************************************************)
EXTENDS Naturals

Engine == {"mlx", "tch", "ggml"}
Purpose == {"clone", "design"}
Form == {"gguf file", "gguf directory", "directory"}
Model == [form : Form, checkpoint : {"base", "voice_design"}]
Failed == [form |-> "none", checkpoint |-> "none"]
Unset == [form |-> "unset", checkpoint |-> "none"]
Missing == [form |-> "missing", checkpoint |-> "none"]

\* The pinned profiles; those of one repository are for one engine.
Profile(purpose, engine, repo, form, checkpoint) ==
  [purpose |-> purpose, backend |-> engine, repo |-> repo,
   model |-> [form |-> form, checkpoint |-> checkpoint]]
profiles == {Profile("clone", "mlx", "mlx base", "directory", "base"),
             Profile("clone", "ggml", "gguf", "gguf directory", "base"),
             Profile("design", "mlx", "mlx design", "directory", "voice_design"),
             Profile("design", "ggml", "gguf", "gguf file", "voice_design")}
Id == {"mlx base", "gguf", "mlx design", "custom"}

\* cached: the snapshot of whatever model is asked for is there and intact.
Config == [id : Id, backend : Engine \union {"auto"},
           path : Model \union {Unset, Missing},
           design_path : Model \union {Unset, Missing},
           offline : BOOLEAN, auto_download : BOOLEAN, cached : BOOLEAN]
-----------------------------------------------------------------------------
(* models.rs                                                               *)

DefaultBackend(build) == IF "mlx" \in build THEN "mlx" ELSE "ggml"

Known(id) == {p \in profiles : p.repo = id}
\* A clone from a model nobody pinned comes from the cache, or not at all.
IsCustom(config, purpose) == Known(config.id) = {} /\ purpose = "clone"

\* A definition named Bug... is never used: put in the place of the one after it,
\* it shows which property would notice that mistake.
BugWanted(config, build) ==
  IF Known(config.id) # {} THEN (CHOOSE p \in Known(config.id) : TRUE).backend
                           ELSE DefaultBackend(build)
\* The engine that was asked for; else that of the configured model, if pinned.
Wanted(config, build) ==
  CASE config.backend # "auto" -> config.backend
    [] config.backend = "auto" /\ Known(config.id) # {} ->
         (CHOOSE p \in Known(config.id) : TRUE).backend
    [] OTHER -> DefaultBackend(build)

Fitting(config, purpose, build) ==
  {p \in profiles : p.backend = Wanted(config, build) /\ p.purpose = purpose}

Explicit(config, purpose) ==
  IF purpose = "clone" THEN config.path ELSE config.design_path

MayFetch(config) == ~config.offline /\ config.auto_download

\* acquire: an intact snapshot, or one made so.
Acquired(profile, config, build) ==
  IF \/ profile.backend = "mlx" /\ "mlx" \notin build
     \/ ~config.cached /\ ~MayFetch(config)
  THEN Failed
  ELSE profile.model

\* The last of the cached snapshots; of a custom model anything may be there.
Custom(config, held) == IF config.cached THEN held ELSE Failed

ResolveFor(config, purpose, build, held) ==
  CASE Explicit(config, purpose) = Missing -> Failed
    [] Explicit(config, purpose) \in Model -> Explicit(config, purpose)
    [] Explicit(config, purpose) = Unset /\ config.backend = "tch" -> Failed
    [] OTHER ->
       IF IsCustom(config, purpose) THEN Custom(config, held)
       ELSE IF Fitting(config, purpose, build) = {} THEN Failed
       ELSE Acquired(CHOOSE p \in Fitting(config, purpose, build) : TRUE, config, build)
-----------------------------------------------------------------------------
(* synthesis.rs and the loaders                                            *)

IsGguf(model) == model.form \in {"gguf file", "gguf directory"}

\* "none": the build has no such engine.
SelectBackend(model, requested, build) ==
  LET selected == CASE requested # "auto" -> requested
                    [] requested = "auto" /\ IsGguf(model) -> "ggml"
                    [] requested = "auto" /\ ~IsGguf(model) /\ "mlx" \in build -> "mlx"
                    [] requested = "auto" /\ ~IsGguf(model) /\ "mlx" \notin build
                         /\ "tch" \in build -> "tch"
                    [] OTHER -> "none"
  IN  IF selected \in build THEN selected ELSE "none"

CheckpointFor(purpose) == IF purpose = "design" THEN "voice_design" ELSE "base"

\* A portable session reads the talker, and checks its kind; a native one reads a
\* directory, which may hold a GGUF file as well, and checks the kind only of a
\* checkpoint that is to be given a description.
Loads(model, engine, purpose) ==
  CASE engine = "ggml" -> IsGguf(model) /\ model.checkpoint = CheckpointFor(purpose)
    [] engine = "mlx" -> /\ model.form # "gguf file"
                         /\ purpose = "design" => model.checkpoint = "voice_design"
    [] engine = "tch" -> model.form # "gguf file" /\ purpose = "clone"
    [] OTHER -> FALSE

\* What a session has in the end, or that it has not come to be.
Session(config, purpose, build, held) ==
  LET model == ResolveFor(config, purpose, build, held)
      engine == SelectBackend(model, config.backend, build)
  IN  IF model # Failed /\ Loads(model, engine, purpose)
      THEN [loaded |-> TRUE, engine |-> engine, model |-> model]
      ELSE [loaded |-> FALSE]

\* ggml_device, and the devices of the native engines; cuda is whether there is one.
Device == {"auto", "cpu", "cuda", "metal", "vulkan"}
DeviceOf(engine, device, cuda) ==
  CASE engine = "ggml" -> IF device = "auto" THEN "library" ELSE device
    [] engine = "mlx" -> IF device \in {"auto", "metal"} THEN "metal" ELSE "none"
    [] engine = "tch" /\ device = "auto" -> IF cuda THEN "cuda" ELSE "cpu"
    [] engine = "tch" /\ device # "auto" ->
         IF device \in {"cpu", "cuda"} THEN device ELSE "none"
-----------------------------------------------------------------------------
\* "no Base model or backend fallback": what is loaded is what was asked for.  An
\* engine or a device that was named is the one that is used; a path that was
\* given is the only place that is looked at; a pinned model is one of that
\* operation and its engine; nothing that is not in the cache is used offline;
\* the portable engine and a description get no checkpoint of another kind.
NothingSubstituted(config, purpose, build, held) ==
  LET session == Session(config, purpose, build, held)
      given == Explicit(config, purpose)
      pinned == {p \in profiles : p.purpose = purpose /\ p.backend = session.engine}
  IN  session.loaded =>
        /\ session.engine \in build
        /\ config.backend # "auto" => session.engine = config.backend
        /\ IF given # Unset THEN session.model = given
           ELSE /\ config.cached \/ MayFetch(config)
                /\ IsCustom(config, purpose) => session.model = held /\ config.cached
                /\ ~IsCustom(config, purpose) => session.model \in {p.model : p \in pinned}
        /\ purpose = "design" \/ session.engine = "ggml" =>
             session.model.checkpoint = CheckpointFor(purpose)

\* Of two paths only one can matter, so the other is not varied.
Relevant(config, purpose) ==
  IF purpose = "clone" THEN config.design_path = Unset ELSE config.path = Unset

NoSubstitution ==
  /\ \A purpose \in Purpose, build \in SUBSET Engine :
       \A config \in {c \in Config : Relevant(c, purpose)} :
         \A held \in IF IsCustom(config, purpose) THEN Model ELSE {Unset} :
           NothingSubstituted(config, purpose, build, held)
  /\ \A engine \in Engine, device \in Device \ {"auto"}, cuda \in BOOLEAN :
       DeviceOf(engine, device, cuda) \in {device, "none"}
=============================================================================
