------------------------------- MODULE Options -------------------------------
(***************************************************************************)
(* From the options of a request to the context llama.cpp makes:           *)
(* NormalizeOptions (internal/backend/backend.go) applies a TurboQuant     *)
(* preset; the CLI backend and the tool pass the result on as arguments    *)
(* (internal/wrapper/wrapper.go) that llama-cli parses (common/arg.cpp),   *)
(* the CGO backend as context parameters (internal/backend/cgo/backend.go).*)
(* llama-cli is given a request's options.  The CGO backend makes its      *)
(* context from the `options` of a model's config only (engine.go:64-69):  *)
(* what a request says of cache types or flash attention it never sees.    *)
(*                                                                         *)
(* "none" is Go's empty string, "nil" a nil pointer; with 0 they say that  *)
(* an option is not given, or an argument not passed.                      *)
(***************************************************************************)
EXTENDS Integers, TLAPS

CONSTANTS Words,    \* the strings that options are given as
          Lower(_)  \* strings.ToLower

ASSUME OptionsAssumption ==
    /\ {"none", "on", "off", "auto", "f16", "q8_0", "q4_0"} \subseteq Words
    /\ \A s \in {"none", "on", "off", "auto", "f32", "f16", "bf16", "q8_0", "q4_0",
                "q4_1", "iq4_nl", "q5_0", "q5_1", "1", "true", "enabled", "0",
                "false", "disabled", "-1"} : Lower(s) = s

Switches == {"nil", "true", "false"}
OptionSpace == [tq: Words, fa: Words, kv: Words, k: Words, v: Words,
                kvo: Switches, swa: Switches, kvu: Switches, batch: Int]

\* What the presets say of the K and the V cache; any other mode nothing.
PresetK(mode) == IF mode \in {"lite", "q8"} THEN "q8_0"
                 ELSE IF mode = "q4" THEN "q4_0" ELSE "none"
\* Mutant: one type for both caches.
PresetVLikeK(mode) == PresetK(mode)
PresetV(mode) == IF mode = "lite" THEN "f16"
                 ELSE IF mode = "q8" THEN "q8_0"
                 ELSE IF mode = "q4" THEN "q4_0" ELSE "none"

Preset(o) == o.tq \notin {"none", "off"}

\* Mutant: the common cache type does not count as a value of the user's.
CacheOpenSeparately(o, given) == given = "none"
\* A preset fills in a cache type only if neither it nor the common one is
\* given.
CacheOpen(o, given) == given = "none" /\ o.kv = "none"

NormalizeOptions(o) ==
    IF ~Preset(o) THEN o
    ELSE [tq |-> o.tq, kv |-> o.kv, swa |-> o.swa, kvu |-> o.kvu,
          fa |-> IF o.fa = "none" THEN "on" ELSE o.fa,
          kvo |-> IF o.kvo = "nil" THEN "true" ELSE o.kvo,
          batch |-> IF o.batch = 0 THEN 1024 ELSE o.batch,
          k |-> IF CacheOpen(o, o.k) THEN PresetK(o.tq) ELSE o.k,
          v |-> IF CacheOpen(o, o.v) THEN PresetV(o.tq) ELSE o.v]

\* kvCacheTypes.
CacheTypeK(o) == IF o.k = "none" THEN o.kv ELSE o.k
CacheTypeV(o) == IF o.v = "none" THEN o.kv ELSE o.v

-----------------------------------------------------------------------------
(***************************************************************************)
(* The arguments, and what llama-cli makes of them.                        *)
(***************************************************************************)
\* A batch size below 0 is dropped without a word.
BuildArguments(given) ==
    LET o == NormalizeOptions(given)
    IN  [ctk |-> CacheTypeK(o), ctv |-> CacheTypeV(o), fa |-> o.fa,
         kvo |-> o.kvo, swa |-> o.swa, kvu |-> o.kvu,
         b |-> IF o.batch > 0 THEN o.batch ELSE 0]

CacheTypes == {"f32", "f16", "bf16", "q8_0", "q4_0", "q4_1", "iq4_nl", "q5_0",
               "q5_1"}
Truthy == {"on", "enabled", "true", "1"}
Falsey == {"off", "disabled", "false", "0"}
Autoy == {"auto", "-1"}

\* There is no --no-swa-full; (no-)kv-unified is not an option of llama-cli.
CliAccepts(args) ==
    /\ {args.ctk, args.ctv} \subseteq CacheTypes \union {"none"}
    /\ args.fa \in Truthy \union Falsey \union Autoy \union {"none"}
    /\ args.swa # "false"
    /\ args.kvu = "nil"

Default(given, default) == IF given = "none" THEN default ELSE given

CliContext(args) ==
    [type_k |-> Default(args.ctk, "f16"),
     type_v |-> Default(args.ctv, "f16"),
     flash |-> IF args.fa \in Truthy THEN "on"
               ELSE IF args.fa \in Falsey THEN "off" ELSE "auto",
     offload |-> args.kvo # "false"]

-----------------------------------------------------------------------------
(***************************************************************************)
(* LoadModel of the CGO backend.                                           *)
(***************************************************************************)
\* ggmlTypeForName, which also knows fp16: a name it does not know leaves the
\* default.
GgmlType(name) == IF name \in CacheTypes THEN name ELSE "f16"

CgoContext(given) ==
    LET o == NormalizeOptions(given)
        flash == Lower(o.fa)
    IN  [type_k |-> GgmlType(Lower(CacheTypeK(o))),
         type_v |-> GgmlType(Lower(CacheTypeV(o))),
         flash |-> IF flash \in {"on", "off"} THEN flash ELSE "auto",
         offload |-> o.kvo # "false"]

(***************************************************************************)
(* The context (llama_init_from_model), as far as the options decide: of   *)
(* the model it matters whether its architecture forbids flash attention   *)
(* (Grok), whether the sizes of its K and V heads are multiples of the     *)
(* block of a quantized type (32 in all of them), and whether its devices  *)
(* have flash attention, which "auto" looks at.  Tensors are not split     *)
(* among devices (SPLIT_MODE_TENSOR): Gllama never asks for it.            *)
(***************************************************************************)
ModelKinds == [grok: BOOLEAN, fitsK: BOOLEAN, fitsV: BOOLEAN, flash: BOOLEAN]

Quantized(type) == type \notin {"f32", "f16", "bf16"}
FlashAsked(c, m) == c.flash # "off" /\ ~m.grok
ContextPossible(c, m) ==
    /\ FlashAsked(c, m) => /\ Quantized(c.type_k) => m.fitsK
                           /\ Quantized(c.type_v) => m.fitsV
    /\ Quantized(c.type_v) => /\ FlashAsked(c, m)
                              /\ c.flash = "auto" => m.flash

-----------------------------------------------------------------------------
(***************************************************************************)
(* backend.go:40, "explicit user values always win": what the user has     *)
(* given reaches llama-cli, whatever the preset, the common cache type and *)
(* their order say; of batch sizes, those above 0 do.                      *)
(***************************************************************************)
Wins(given, zero, used) == given # zero => used = given
ExplicitWins(o) ==
    LET args == BuildArguments(o)
    IN  /\ Wins(o.fa, "none", args.fa) /\ Wins(o.kvo, "nil", args.kvo)
        /\ Wins(o.swa, "nil", args.swa) /\ Wins(o.kvu, "nil", args.kvu)
        /\ o.batch > 0 => args.b = o.batch
        /\ Wins(CacheTypeK(o), "none", args.ctk)
        /\ Wins(CacheTypeV(o), "none", args.ctv)

(***************************************************************************)
(* The same options, in a request to the CLI backend and in a config of the*)
(* CGO backend.  If llama-cli accepts them they mean the same cache types  *)
(* and offloading, although each backend has a kvCacheTypes and a parser of*)
(* its own; and the same flash attention (in the words of backend.go:31),  *)
(* except in those of llama-cli's spellings for on and off that the switch *)
(* of the CGO backend does not know and leaves at "auto".                  *)
(***************************************************************************)
SpellingsOfTheCliOnly == {"enabled", "true", "1", "disabled", "false", "0"}
BackendsAgree(o) ==
    LET args == BuildArguments(o)
        cli == CliContext(args)
        cgo == CgoContext(o)
    IN  CliAccepts(args) =>
            /\ cli.type_k = cgo.type_k /\ cli.type_v = cgo.type_v
            /\ cli.offload = cgo.offload
            /\ cli.flash = cgo.flash <=> o.fa \notin SpellingsOfTheCliOnly

(***************************************************************************)
(* What a preset breaks (backend.go:40, "intentionally conservative"):     *)
(* options for which llama.cpp makes a context without the preset get one  *)
(* with it, on both backends and whatever the model, with exactly these    *)
(* exceptions.  A V cache quantized by the preset (q8, q4) is refused where*)
(* there is no flash attention - the user has switched it off, or to "auto"*)
(* on devices without it, or the model forbids it - and where the model's  *)
(* V heads do not fit the blocks.  A K cache quantized by it (q8, q4, lite)*)
(* is refused where the K heads do not fit, unless flash attention is off: *)
(* then their size is not looked at.                                       *)
(***************************************************************************)
PresetQuantizesK(o) == o.tq \in {"lite", "q8", "q4"} /\ CacheTypeK(o) = "none"
PresetQuantizesV(o) == o.tq \in {"q8", "q4"} /\ CacheTypeV(o) = "none"
PresetBreaks(o, off, auto, m) ==
    \/ PresetQuantizesV(o) /\ (off \/ m.grok \/ ~m.fitsV \/ (auto /\ ~m.flash))
    \/ PresetQuantizesK(o) /\ ~off /\ ~m.grok /\ ~m.fitsK

PresetSafe(o) ==
    LET plain == [o EXCEPT !.tq = "off"]
    IN  \A m \in ModelKinds :
          /\ CliAccepts(BuildArguments(plain)) =>
               /\ CliAccepts(BuildArguments(o))
               /\ ContextPossible(CliContext(BuildArguments(plain)), m) =>
                    (ContextPossible(CliContext(BuildArguments(o)), m) <=>
                       ~PresetBreaks(o, o.fa \in Falsey, o.fa \in Autoy, m))
          /\ ContextPossible(CgoContext(plain), m) =>
               (ContextPossible(CgoContext(o), m) <=>
                  ~PresetBreaks(o, Lower(o.fa) = "off",
                                o.fa # "none" /\ Lower(o.fa) \notin {"on", "off"},
                                m))

-----------------------------------------------------------------------------
\* What NormalizeOptions does to each field.
LEMMA Fields ==
    ASSUME NEW o \in OptionSpace, Preset(o), NEW n, n = NormalizeOptions(o)
    PROVE  /\ n \in OptionSpace
           /\ n.tq = o.tq /\ n.kv = o.kv /\ n.swa = o.swa /\ n.kvu = o.kvu
           /\ n.fa = IF o.fa = "none" THEN "on" ELSE o.fa
           /\ n.kvo = IF o.kvo = "nil" THEN "true" ELSE o.kvo
           /\ n.batch = IF o.batch = 0 THEN 1024 ELSE o.batch
           /\ n.k = IF CacheOpen(o, o.k) THEN PresetK(o.tq) ELSE o.k
           /\ n.v = IF CacheOpen(o, o.v) THEN PresetV(o.tq) ELSE o.v
<1>1. /\ n.tq = o.tq /\ n.kv = o.kv /\ n.swa = o.swa /\ n.kvu = o.kvu
      /\ n.fa = IF o.fa = "none" THEN "on" ELSE o.fa
      /\ n.kvo = IF o.kvo = "nil" THEN "true" ELSE o.kvo
      /\ n.batch = IF o.batch = 0 THEN 1024 ELSE o.batch
  BY DEF NormalizeOptions, OptionSpace
<1>2. /\ n.k = IF CacheOpen(o, o.k) THEN PresetK(o.tq) ELSE o.k
      /\ n.v = IF CacheOpen(o, o.v) THEN PresetV(o.tq) ELSE o.v
  BY DEF NormalizeOptions, OptionSpace
<1>3. {PresetK(o.tq), PresetV(o.tq)} \subseteq {"q8_0", "q4_0", "f16", "none"}
  BY DEF PresetK, PresetV
<1>4. n \in OptionSpace
  BY <1>3, OptionsAssumption DEF NormalizeOptions, OptionSpace, Switches
<1> QED
  BY <1>1, <1>2, <1>4

\* Explicit values win, for all options.
THEOREM ExplicitValuesWin ==
    ASSUME NEW o \in OptionSpace
    PROVE  ExplicitWins(o)
<1>1. CASE ~Preset(o)
  BY <1>1 DEF ExplicitWins, Wins, BuildArguments, NormalizeOptions
<1>2. CASE Preset(o)
  <2> DEFINE n == NormalizeOptions(o)
  <2>1. CacheTypeK(o) # "none" => CacheTypeK(n) = CacheTypeK(o)
    BY <1>2, Fields DEF CacheTypeK, CacheOpen
  <2>2. CacheTypeV(o) # "none" => CacheTypeV(n) = CacheTypeV(o)
    BY <1>2, Fields DEF CacheTypeV, CacheOpen
  <2> QED
    BY <1>2, <2>1, <2>2, Fields DEF ExplicitWins, Wins, BuildArguments
<1> QED
  BY <1>1, <1>2

\* Normalizing twice is normalizing once: the CGO backend's options and the
\* arguments may each be made from what the other has normalized.
THEOREM NormalizeIdempotent ==
    ASSUME NEW o \in OptionSpace
    PROVE  NormalizeOptions(NormalizeOptions(o)) = NormalizeOptions(o)
<1>1. CASE ~Preset(o)
  BY <1>1 DEF NormalizeOptions
<1>2. CASE Preset(o)
  <2> DEFINE n == NormalizeOptions(o)
             m == NormalizeOptions(n)
  <2>1. n \in OptionSpace /\ Preset(n)
    BY <1>2, Fields DEF Preset
  <2>2. n.fa # "none" /\ n.kvo # "nil" /\ n.batch # 0
    BY <1>2, Fields
  <2>3. CacheOpen(n, n.k) => PresetK(n.tq) = n.k
    BY <1>2, Fields DEF CacheOpen
  <2>4. CacheOpen(n, n.v) => PresetV(n.tq) = n.v
    BY <1>2, Fields DEF CacheOpen
  <2> HIDE DEF n
  <2>5. m = [tq |-> n.tq, kv |-> n.kv, swa |-> n.swa, kvu |-> n.kvu,
             fa |-> n.fa, kvo |-> n.kvo, batch |-> n.batch, k |-> n.k, v |-> n.v]
    BY <2>1, <2>2, <2>3, <2>4 DEF NormalizeOptions
  <2>6. m = n
    BY <2>1, <2>5 DEF OptionSpace
  <2> QED
    BY <2>6 DEF n
<1> QED
  BY <1>1, <1>2

\* Whatever the options, if llama-cli accepts them the two backends agree on
\* them, flash attention in the spellings of the CLI only excepted.
THEOREM BackendsUnderstandAlike ==
    ASSUME NEW o \in OptionSpace
    PROVE  BackendsAgree(o)
<1> DEFINE n == NormalizeOptions(o)
           args == BuildArguments(o)
           cli == CliContext(args)
           cgo == CgoContext(o)
<1> SUFFICES ASSUME CliAccepts(args)
             PROVE  /\ cli.type_k = cgo.type_k /\ cli.type_v = cgo.type_v
                    /\ cli.offload = cgo.offload
                    /\ cli.flash = cgo.flash <=> o.fa \notin SpellingsOfTheCliOnly
  BY DEF BackendsAgree
<1> DEFINE spellings == Truthy \union Falsey \union Autoy \union {"none"}
<1>1. /\ n.fa \in {o.fa} \union (IF o.fa = "none" THEN {"on"} ELSE {})
      /\ args.fa = n.fa
  BY Fields DEF NormalizeOptions, BuildArguments
<1> HIDE DEF n
<1>2. /\ args.ctk = CacheTypeK(n) /\ args.ctv = CacheTypeV(n)
      /\ args.fa = n.fa /\ args.kvo = n.kvo
  BY DEF BuildArguments, n
<1>3. /\ {CacheTypeK(n), CacheTypeV(n)} \subseteq CacheTypes \union {"none"}
      /\ n.fa \in spellings
  BY <1>2 DEF CliAccepts
<1>4. /\ Lower(CacheTypeK(n)) = CacheTypeK(n)
      /\ Lower(CacheTypeV(n)) = CacheTypeV(n)
      /\ Lower(n.fa) = n.fa
  BY <1>3, OptionsAssumption DEF CacheTypes, Truthy, Falsey, Autoy
<1>5. /\ cgo.type_k = GgmlType(CacheTypeK(n))
      /\ cgo.type_v = GgmlType(CacheTypeV(n))
      /\ cgo.flash = IF n.fa \in {"on", "off"} THEN n.fa ELSE "auto"
      /\ cgo.offload = (n.kvo # "false")
  BY <1>4, Zenon DEF CgoContext, n
<1>6. /\ cli.type_k = Default(CacheTypeK(n), "f16")
      /\ cli.type_v = Default(CacheTypeV(n), "f16")
      /\ cli.offload = (n.kvo # "false")
  BY <1>2, Zenon DEF CliContext
<1>7. cli.flash = IF n.fa \in Truthy THEN "on"
                  ELSE IF n.fa \in Falsey THEN "off" ELSE "auto"
  BY <1>2, Zenon DEF CliContext
<1>8. cli.type_k = cgo.type_k /\ cli.type_v = cgo.type_v
  BY <1>3, <1>5, <1>6 DEF GgmlType, Default, CacheTypes
<1>9. cli.flash = cgo.flash <=> o.fa \notin SpellingsOfTheCliOnly
  <2>1. cli.flash = cgo.flash <=> n.fa \notin SpellingsOfTheCliOnly
    BY <1>3, <1>5, <1>7 DEF Truthy, Falsey, Autoy, SpellingsOfTheCliOnly
  <2>2. n.fa \in SpellingsOfTheCliOnly <=> o.fa \in SpellingsOfTheCliOnly
    BY <1>1 DEF SpellingsOfTheCliOnly
  <2> QED BY <2>1, <2>2
<1> QED
  BY <1>5, <1>6, <1>8, <1>9

(***************************************************************************)
(* Two contexts, without and with a preset: the preset may quantize what   *)
(* was not, and turn "auto" into "on".                                     *)
(***************************************************************************)
LEMMA BreaksExactly ==
    ASSUME NEW o, NEW m, NEW off \in BOOLEAN, NEW auto \in BOOLEAN, NEW c, NEW d,
           Quantized(c.type_k) => ~PresetQuantizesK(o),
           Quantized(c.type_v) => ~PresetQuantizesV(o),
           Quantized(d.type_k) <=> PresetQuantizesK(o) \/ Quantized(c.type_k),
           Quantized(d.type_v) <=> PresetQuantizesV(o) \/ Quantized(c.type_v),
           off <=> c.flash = "off",
           off <=> d.flash = "off",
           d.flash = "auto" => c.flash = "auto",
           PresetQuantizesV(o) => (auto <=> d.flash = "auto"),
           ContextPossible(c, m)
    PROVE  ContextPossible(d, m) <=> ~PresetBreaks(o, off, auto, m)
<1>1. FlashAsked(c, m) <=> FlashAsked(d, m)
  BY DEF FlashAsked
<1>2. FlashAsked(d, m) <=> ~off /\ ~m.grok
  BY DEF FlashAsked
<1>3. CASE PresetQuantizesV(o)
  BY <1>1, <1>2, <1>3, Zenon DEF ContextPossible, PresetBreaks
<1>4. CASE ~PresetQuantizesV(o)
  BY <1>1, <1>2, <1>4, Zenon DEF ContextPossible, PresetBreaks
<1> QED
  BY <1>3, <1>4

\* Whatever the options and the model, on both backends a preset makes the
\* context fail in the listed cases and in no others.
THEOREM PresetsConservative ==
    ASSUME NEW o \in OptionSpace
    PROVE  PresetSafe(o)
<1> DEFINE p == [o EXCEPT !.tq = "off"]
           n == NormalizeOptions(o)
           plain == BuildArguments(p)
           args == BuildArguments(o)
           tk == CacheTypeK(o)
           tv == CacheTypeV(o)
\* What the two sets of options come to.
<1>1. /\ plain.ctk = tk /\ plain.ctv = tv /\ plain.fa = o.fa
      /\ plain.swa = o.swa /\ plain.kvu = o.kvu
  BY DEF OptionSpace, BuildArguments, NormalizeOptions, Preset, CacheTypeK,
         CacheTypeV
<1>2. /\ args.ctk = CacheTypeK(n) /\ args.ctv = CacheTypeV(n)
      /\ args.fa = n.fa /\ args.swa = n.swa /\ args.kvu = n.kvu
  BY DEF BuildArguments
<1>3. /\ CacheTypeK(n) = IF tk = "none" THEN PresetK(o.tq) ELSE tk
      /\ CacheTypeV(n) = IF tv = "none" THEN PresetV(o.tq) ELSE tv
      /\ n.fa = IF Preset(o) /\ o.fa = "none" THEN "on" ELSE o.fa
      /\ n.swa = o.swa /\ n.kvu = o.kvu
  <2>1. CASE ~Preset(o)
    <3>1. n = o
      BY <2>1 DEF NormalizeOptions
    <3>2. PresetK(o.tq) = "none" /\ PresetV(o.tq) = "none"
      BY <2>1 DEF Preset, PresetK, PresetV
    <3> QED BY <2>1, <3>1, <3>2
  <2>2. CASE Preset(o)
    BY <2>2, Fields DEF CacheTypeK, CacheTypeV, CacheOpen
  <2> QED BY <2>1, <2>2
<1>4. /\ CgoContext(p).type_k = GgmlType(Lower(tk))
      /\ CgoContext(p).type_v = GgmlType(Lower(tv))
      /\ CgoContext(p).flash = IF Lower(o.fa) \in {"on", "off"} THEN Lower(o.fa)
                                                              ELSE "auto"
  <2>1. NormalizeOptions(p) = p /\ p.fa = o.fa
    BY DEF OptionSpace, NormalizeOptions, Preset
  <2>2. CacheTypeK(p) = tk /\ CacheTypeV(p) = tv
    BY DEF OptionSpace, CacheTypeK, CacheTypeV
  <2> QED BY <2>1, <2>2, Zenon DEF CgoContext
<1>5. /\ CgoContext(o).type_k = GgmlType(Lower(CacheTypeK(n)))
      /\ CgoContext(o).type_v = GgmlType(Lower(CacheTypeV(n)))
      /\ CgoContext(o).flash = IF Lower(n.fa) \in {"on", "off"} THEN Lower(n.fa)
                                                              ELSE "auto"
  BY Zenon DEF CgoContext
<1> HIDE DEF plain, args, n, p, tk, tv
\* What the preset quantizes.
<1>6. /\ PresetQuantizesK(o) <=> tk = "none" /\ PresetK(o.tq) \in {"q8_0", "q4_0"}
      /\ PresetQuantizesV(o) <=> tv = "none" /\ PresetV(o.tq) \in {"q8_0", "q4_0"}
      /\ PresetK(o.tq) \in {"none", "q8_0", "q4_0"}
      /\ PresetV(o.tq) \in {"none", "f16", "q8_0", "q4_0"}
      /\ PresetQuantizesV(o) => Preset(o)
  BY DEF PresetQuantizesK, PresetQuantizesV, PresetK, PresetV, Preset, tk, tv
<1> DEFINE quantized == {"q8_0", "q4_0", "q4_1", "iq4_nl", "q5_0", "q5_1"}
\* llama-cli.
<1>7. ASSUME CliAccepts(plain)
      PROVE  /\ CliAccepts(args)
             /\ \A m \in ModelKinds :
                  ContextPossible(CliContext(plain), m) =>
                    (ContextPossible(CliContext(args), m) <=>
                       ~PresetBreaks(o, o.fa \in Falsey, o.fa \in Autoy, m))
  <2>1. /\ {tk, tv} \subseteq CacheTypes \union {"none"}
        /\ o.fa \in Truthy \union Falsey \union Autoy \union {"none"}
        /\ o.swa # "false" /\ o.kvu = "nil"
    BY <1>1, <1>7 DEF CliAccepts
  <2>2. CliAccepts(args)
    <3>1. {args.ctk, args.ctv} \subseteq CacheTypes \union {"none"}
      BY <1>2, <1>3, <1>6, <2>1 DEF CacheTypes
    <3>2. args.fa \in Truthy \union Falsey \union Autoy \union {"none"}
      BY <1>2, <1>3, <2>1 DEF Truthy
    <3> QED BY <1>2, <1>3, <2>1, <3>1, <3>2 DEF CliAccepts
  <2> DEFINE c == CliContext(plain)
             d == CliContext(args)
  <2>3. /\ Quantized(c.type_k) <=> tk \notin {"none", "f32", "f16", "bf16"}
        /\ Quantized(c.type_v) <=> tv \notin {"none", "f32", "f16", "bf16"}
    BY <1>1 DEF CliContext, Default, Quantized
  <2>4. /\ Quantized(d.type_k) <=> args.ctk \notin {"none", "f32", "f16", "bf16"}
        /\ Quantized(d.type_v) <=> args.ctv \notin {"none", "f32", "f16", "bf16"}
    BY DEF CliContext, Default, Quantized
  <2>5. /\ c.flash = IF o.fa \in Truthy THEN "on"
                     ELSE IF o.fa \in Falsey THEN "off" ELSE "auto"
        /\ d.flash = IF n.fa \in Truthy THEN "on"
                     ELSE IF n.fa \in Falsey THEN "off" ELSE "auto"
    BY <1>1, <1>2, Zenon DEF CliContext
  <2> HIDE DEF c, d
  <2>6. /\ Quantized(c.type_k) => ~PresetQuantizesK(o)
        /\ Quantized(c.type_v) => ~PresetQuantizesV(o)
        /\ Quantized(d.type_k) <=> PresetQuantizesK(o) \/ Quantized(c.type_k)
        /\ Quantized(d.type_v) <=> PresetQuantizesV(o) \/ Quantized(c.type_v)
    BY <1>2, <1>3, <1>6, <2>3, <2>4
  <2>7. /\ o.fa \in Falsey <=> c.flash = "off"
        /\ o.fa \in Falsey <=> d.flash = "off"
        /\ d.flash = "auto" => c.flash = "auto"
        /\ PresetQuantizesV(o) => (o.fa \in Autoy <=> d.flash = "auto")
    BY <1>3, <1>6, <2>1, <2>5 DEF Truthy, Falsey, Autoy
  <2> DEFINE off == o.fa \in Falsey
             auto == o.fa \in Autoy
  <2>8. off \in BOOLEAN /\ auto \in BOOLEAN
    OBVIOUS
  <2> HIDE DEF off, auto
  <2>9. ASSUME NEW m \in ModelKinds, ContextPossible(c, m)
        PROVE  ContextPossible(d, m) <=> ~PresetBreaks(o, off, auto, m)
    BY <2>6, <2>7, <2>8, <2>9, BreaksExactly, Zenon DEF off, auto
  <2> QED BY <2>2, <2>9 DEF c, d, off, auto
\* The CGO backend.
<1>8. ASSUME NEW m \in ModelKinds, ContextPossible(CgoContext(p), m)
      PROVE  ContextPossible(CgoContext(o), m) <=>
               ~PresetBreaks(o, Lower(o.fa) = "off",
                             o.fa # "none" /\ Lower(o.fa) \notin {"on", "off"}, m)
  <2> DEFINE c == CgoContext(p)
             d == CgoContext(o)
  <2>1. /\ Lower("none") = "none" /\ Lower("q8_0") = "q8_0" /\ Lower("q4_0") = "q4_0"
        /\ Lower("f16") = "f16" /\ Lower("on") = "on"
    BY OptionsAssumption
  <2>2. \A t : Quantized(GgmlType(t)) <=> t \in quantized
    BY DEF Quantized, GgmlType, CacheTypes
  <2>3. /\ Quantized(c.type_k) <=> Lower(tk) \in quantized
        /\ Quantized(c.type_v) <=> Lower(tv) \in quantized
        /\ Quantized(d.type_k) <=> Lower(CacheTypeK(n)) \in quantized
        /\ Quantized(d.type_v) <=> Lower(CacheTypeV(n)) \in quantized
    BY <1>4, <1>5, <2>2
  <2>4. /\ Quantized(c.type_k) => ~PresetQuantizesK(o)
        /\ Quantized(d.type_k) <=> PresetQuantizesK(o) \/ Quantized(c.type_k)
    <3>1. CASE tk = "none"
      BY <1>3, <1>6, <2>1, <2>3, <3>1
    <3>2. CASE tk # "none"
      BY <1>3, <1>6, <2>3, <3>2
    <3> QED BY <3>1, <3>2
  <2>5. /\ Quantized(c.type_v) => ~PresetQuantizesV(o)
        /\ Quantized(d.type_v) <=> PresetQuantizesV(o) \/ Quantized(c.type_v)
    <3>1. CASE tv = "none"
      BY <1>3, <1>6, <2>1, <2>3, <3>1
    <3>2. CASE tv # "none"
      BY <1>3, <1>6, <2>3, <3>2
    <3> QED BY <3>1, <3>2
  <2>6. /\ Lower(o.fa) = "off" <=> c.flash = "off"
        /\ Lower(o.fa) = "off" <=> d.flash = "off"
        /\ d.flash = "auto" => c.flash = "auto"
        /\ PresetQuantizesV(o) =>
             ((o.fa # "none" /\ Lower(o.fa) \notin {"on", "off"}) <=> d.flash = "auto")
    <3>1. CASE o.fa = "none"
      BY <1>3, <1>4, <1>5, <1>6, <2>1, <3>1
    <3>2. CASE o.fa # "none"
      BY <1>3, <1>4, <1>5, <3>2
    <3> QED BY <3>1, <3>2
  <2> HIDE DEF c, d
  <2>7. ContextPossible(c, m)
    BY <1>8 DEF c
  <2> QED BY <2>4, <2>5, <2>6, <2>7, BreaksExactly, Zenon DEF d
<1> QED
  BY <1>7, <1>8 DEF PresetSafe, plain, args, p
=============================================================================
