---------------------------- MODULE DreaminaForms ----------------------------
(***************************************************************************)
(* Which clip requests http/dreamina_rest.py accepts, and which of their    *)
(* fields services/dreamina.py hands to the dreamina CLI.  The bounds on the *)
(* numbers of images, videos and audios are reduced: a form says whether a   *)
(* field is there, and of lists of images and transitions how long they are. *)
(***************************************************************************)
EXTENDS Naturals, FiniteSets

Operations == {"text2video", "image2video", "multimodal2video", "frames2video",
               "multiframe2video"}

(* Optional fields that are there or not. *)
Flags == {"prompt", "duration", "model", "ratio", "image", "videos", "audios",
          "first_image", "last_image"}

(* fields: the flags given; images, segments, seconds: the lengths of images, *)
(* transition_prompts and transition_durations; fits: within the ceilings of  *)
(* the model; wide: the model is the one that takes audio alone.              *)
Forms == [operation: Operations, fields: SUBSET Flags, images: 0..3, segments: 0..2,
          seconds: 0..2, fits: BOOLEAN, wide: BOOLEAN]

Has(f, x) == x \in f.fields

RequiredFields(f) ==
  f.operation # "multiframe2video" => Has(f, "prompt") /\ Has(f, "duration")

(* The duration, image, media and total ceilings of the model. *)
WithinCeilings(f) == f.fits

(* _check_media_matrix.  (Names ending in _m are mutants: a dropped line.)   *)
MediaMatrixRatio_m(f) ==
  /\ ~(Has(f, "image") /\ f.images > 0)
  /\ f.operation # "frames2video" => ~Has(f, "first_image") /\ ~Has(f, "last_image")
  /\ f.operation # "multimodal2video" => ~Has(f, "videos") /\ ~Has(f, "audios")
MediaMatrix(f) ==
  /\ ~(Has(f, "image") /\ f.images > 0)
  /\ f.operation # "frames2video" => ~Has(f, "first_image") /\ ~Has(f, "last_image")
  /\ f.operation # "multimodal2video" => ~Has(f, "videos") /\ ~Has(f, "audios")
  /\ f.operation \in {"image2video", "frames2video", "multiframe2video"} => ~Has(f, "ratio")
  /\ f.operation = "image2video" => Has(f, "image")
  /\ f.operation = "text2video" => ~Has(f, "image") /\ f.images = 0
  /\ f.operation = "frames2video" =>
       {"first_image", "last_image"} \subseteq f.fields /\ ~Has(f, "image") /\ f.images = 0
  /\ f.operation = "multiframe2video" => ~Has(f, "image")
  /\ f.operation = "multimodal2video" =>
       \/ f.images > 0 \/ {"image", "videos"} \cap f.fields # {}
       \/ Has(f, "audios") /\ f.wide

(* Transitions one by one: one fewer than images, and no prompt for the whole. *)
Segments(f) ==
  /\ f.segments = f.images - 1
  /\ ~Has(f, "prompt") /\ ~Has(f, "duration")
  /\ f.seconds \in {0, f.segments}

Multiframe(f) ==
  IF f.operation # "multiframe2video" THEN f.segments = 0 /\ f.seconds = 0
  ELSE /\ f.images >= 2 /\ ~Has(f, "model")
       /\ IF f.segments > 0 THEN Segments(f)
          ELSE f.seconds = 0 /\ f.images = 2 /\ Has(f, "prompt") /\ Has(f, "duration")

Valid(f) == RequiredFields(f) /\ WithinCeilings(f) /\ MediaMatrix(f) /\ Multiframe(f)

(* What _ref_specs puts into the row, and thus into the clip's directory.    *)
RefSpecs(f) ==
  IF f.operation = "frames2video" THEN 2
  ELSE IF f.images > 0 THEN f.images ELSE IF Has(f, "image") THEN 1 ELSE 0

(* The arguments of the CLI: the flags they carry, how many pictures, how     *)
(* many segments.                                                            *)
MultiframeArgs(f) ==
  [carried |-> IF f.segments = 0 THEN {"prompt", "duration"} ELSE {},
   pictures |-> RefSpecs(f), segments |-> f.segments, seconds |-> f.seconds]

SubmitArgs(f) ==
  LET common == {"prompt", "duration", "model"}
      A(extra, pictures) == [carried |-> common \cup extra, pictures |-> pictures,
                             segments |-> 0, seconds |-> 0]
  IN CASE f.operation = "multiframe2video" -> MultiframeArgs(f)
       [] f.operation = "image2video" -> A({"image"}, 1)
       [] f.operation = "frames2video" -> A({"first_image", "last_image"}, 2)
       [] f.operation = "multimodal2video" ->
            A({"image", "videos", "audios", "ratio"}, RefSpecs(f))
       [] OTHER -> A({"ratio"}, 0)

(* Every field of an accepted request reaches the CLI, and the pictures the   *)
(* CLI is given are exactly those of the request: nothing is silently dropped *)
(* between the REST checks and the argument list, which two files build       *)
(* independently of each other.                                              *)
NothingDropped ==
  \A f \in Forms : Valid(f) =>
    LET args == SubmitArgs(f) IN
      /\ f.fields \subseteq args.carried
      /\ args.pictures = f.images + Cardinality({"image", "first_image", "last_image"} \cap f.fields)
      /\ args.pictures = RefSpecs(f)
      /\ args.segments = f.segments /\ args.seconds = f.seconds
=============================================================================
