------------------------------ MODULE MCAllPCs ------------------------------
(* Small files: images with every text of some bytes, objects with         *)
(* relocations, and units of all forms.                                    *)
EXTENDS AllPCs

(* trace_pc as a function at v. *)
At(v) == [name |-> "pc", value |-> v, size |-> 0]
Undefined(name) == [name |-> name, value |-> 0, size |-> 0]

Image(machine, addr, text, symbols) ==
    [machine |-> machine, addr |-> addr, text |-> text, symbols |-> symbols,
     rela |-> << >>, torn |-> FALSE, units |-> << >>, missing |-> {".rela.text", ".debug_info"}]

(* 4 to 7 are the opcodes of arm64, 5 is that of amd64. *)
ArmTexts ==
    {w \o v : w \in [1..4 -> {0, 1, 4, 7}], v \in {0, 1, 7} \X {0, 7} \X {0, 7} \X {4, 6, 7}}
ArmImages == {Image("arm64", 8, t, <<At(v)>>) : t \in ArmTexts, v \in {8, 12}}
        \cup {Image("arm64", 6, t \o <<0, 4>>, <<At(8)>>) : t \in [1..4 -> {0, 4, 7}]}

(* In some of these the bytes of a call are the operand of another. *)
AmdImages ==
    {Image("amd64", 3, t, <<Undefined("other"), At(v)>>) : t \in [1..7 -> {0, 5, 7}], v \in {8, 9}}

(* A callback as far away as 24 bits of words go, and one word more. *)
FarImages ==
    {Image("arm64", 8, <<l, m, m, op>> \o [k \in 1..2048 |-> 0], <<At(v)>>) :
        <<l, m, op, v>> \in {<<7, 7, 4, 2052>>, <<0, 0, 5, 2056>>, <<0, 0, 4, 8>>}}

OtherImages ==
    {Image(m, a, <<0, 5, 0>>, ss) :
        m \in {"amd64", "other"}, a \in {0, 3},
        ss \in {<< >>, <<At(4)>>, <<At(9)>>, <<Undefined("pc")>>,
                <<At(4), Undefined("cmp")>>,
                <<At(4), [Undefined("cmp") EXCEPT !.value = 4]>>,
                <<At(4), [At(2) EXCEPT !.size = 9], At(5)>>}}

(* Two calls in .text, or a jump and a call, and relocations of them, of a *)
(* third place and of the very first byte.                                 *)
Object(machine, text, symbols, rela, torn, missing) ==
    [machine |-> machine, addr |-> 0, text |-> text, symbols |-> symbols,
     rela |-> rela, torn |-> torn, units |-> << >>, missing |-> missing]

FarCmp == [name |-> "cmp", value |-> 99, size |-> 0]

Objects ==
    {Object(m[1], m[2], ss, [k \in 1..2 |-> [off |-> m[3][k], type |-> t[k], sym |-> s[k]]], torn, miss) :
        m \in {<<"amd64", <<5, 0, 0, 0, 0, 5, 0, 0, 0, 0>>, <<6, 1>> >>,
               <<"amd64", <<6, 0, 0, 0, 0, 5, 0, 0, 0, 0>>, <<1, 6>> >>,
               <<"amd64", <<0, 5, 0, 0, 0, 0>>, <<0, 2>> >>,
               <<"arm64", <<0, 0, 0, 4, 0, 0, 0, 6>>, <<0, 4>> >>,
               <<"other", <<0, 0, 0, 0, 0>>, <<0, 4>> >>},
        ss \in {<<Undefined("pc"), FarCmp>>, <<FarCmp, Undefined("pc"), Undefined("cmp")>>,
                <<Undefined("other"), FarCmp>>},
        t \in [1..2 -> {"call", "none", "other"}], s \in [1..2 -> 0..2],
        torn \in BOOLEAN, miss \in {{}, {".debug_info"}, {".symtab"}}}

Program(units, missing) ==
    [machine |-> "amd64", addr |-> 0, text |-> << >>, symbols |-> << >>,
     rela |-> << >>, torn |-> FALSE, units |-> units, missing |-> missing]

MCUnits ==
    {[form |-> "good", code |-> c, table |-> t, rows |-> r] :
        c \in BOOLEAN, t \in {"good", "missing", "broken"}, r \in {<<2, 1, 2>>, <<1, 3>>}}
        \cup {[form |-> f, code |-> TRUE, table |-> "good", rows |-> <<2>>] :
                f \in {"nameless", "namelessLeaf", "noCompDir", "bad"}}
Programs ==
    {Program(us, {}) : us \in UNION {[1..k -> MCUnits] : k \in 0..2}}
        \cup {Program(<< >>, {".debug_info"})}

(* Before .text, in it, and as far as displacements go and farther. *)
MCPlacements == {-2000, 0, 4, 2044, 2060, 4092}

MCFiles == ArmImages \cup AmdImages \cup FarImages \cup OtherImages \cup Objects \cup Programs
=============================================================================
