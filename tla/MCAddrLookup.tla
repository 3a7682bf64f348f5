---------------------------- MODULE MCAddrLookup ----------------------------
(* Programs of one or two functions that may overlap, as in a relocatable   *)
(* object, and of three that do not, as in a linked image.  A function is   *)
(* one range, or two with a hole between them in either order.  The first   *)
(* is in unit 1.                                                            *)
EXTENDS AddrLookup

CONSTANTS MaxAddr

MCPCs == 0..MaxAddr

Single == {<< <<lo, hi>> >> : <<lo, hi>> \in {p \in MCPCs \X MCPCs : p[1] < p[2]}}
Split == {<< <<0, 1>>, <<3, 4>> >>, << <<3, 4>>, <<0, 1>> >>}

Apart(f, g) ==
    \A k \in 1..Len(f.parts), l \in 1..Len(g.parts) :
        f.parts[k][2] <= g.parts[l][1] \/ g.parts[l][2] <= f.parts[k][1]

Funcs1 == [unit : {1}, parts : Single \cup Split]
Funcs2 == [unit : 1..2, parts : Single \cup Split]

MCProgs ==
    {<<f>> : f \in Funcs1}
        \cup {<<f, g>> : f \in Funcs1, g \in Funcs2}
        \cup UNION {{<<f, g, h>> : h \in {h \in Funcs2 : Apart(f, h) /\ Apart(g, h)}} :
                       <<f, g>> \in {p \in Funcs1 \X Funcs2 : Apart(p[1], p[2])}}
=============================================================================
