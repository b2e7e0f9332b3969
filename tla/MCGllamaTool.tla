---------------------------- MODULE MCGllamaTool ----------------------------
(***************************************************************************)
(* Instances of GllamaTool for TLC: a second release with shorter files,   *)
(* and options that set everything a preset touches, in both cases of      *)
(* letters.                                                                *)
(***************************************************************************)
EXTENDS GllamaTool

MCArchive == <<"llama-cli", "ggml.so", "ggml">>
MCSize == [v \in 1..2 |-> 3 - v]

MCLower(s) == CASE s = "ON" -> "on" [] s = "Q8_0" -> "q8_0" [] OTHER -> s
MCWords == {"none", "on", "off", "auto", "ON", "lite", "q8", "q4", "1",
            "f16", "q8_0", "q4_0", "Q8_0"}

Plain == [tq |-> "none", fa |-> "none", kv |-> "none", k |-> "none", v |-> "none",
          kvo |-> "nil", swa |-> "nil", kvu |-> "nil", batch |-> 0]
CacheOptions ==
    {[Plain EXCEPT !.tq = tq, !.fa = fa, !.kv = kv, !.k = k, !.v = v] :
        tq \in {"none", "lite", "q8"}, fa \in {"none", "off", "ON"},
        kv \in {"none", "q4_0"}, k \in {"none", "Q8_0"}, v \in {"none", "q8_0"}}
OtherOptions ==
    {[Plain EXCEPT !.tq = tq, !.fa = fa, !.kvo = kvo, !.batch = b] :
        tq \in {"off", "q4"}, fa \in {"none", "auto", "1"},
        kvo \in {"nil", "false"}, b \in {-1, 0, 256}}
        \union {[Plain EXCEPT !.swa = swa, !.kvu = kvu] :
                   swa \in Switches, kvu \in {"nil", "true"}}
MCGiven == CacheOptions \union OtherOptions
PlainOnly == {Plain}
=============================================================================
