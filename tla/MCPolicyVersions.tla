-------------------------- MODULE MCPolicyVersions --------------------------
(* Instances of PolicyVersions for TLC: two versions of one product and one *)
(* of another, one version drafted twice by different people for different  *)
(* products, and activated twice, once perhaps by the one who drafted it.   *)
EXTENDS PolicyVersions, TLC

CONSTANTS d1, d2, d3, d4, a1, a2, a3, a4, v1, v2, v3, PL, BL, alice, bob, carol

MCVersionOf == [c \in Drafts \union Activations |->
                   CASE c \in {d1, d2, a1, a4} -> v1
                     [] c \in {d3, a2} -> v2
                     [] OTHER -> v3]
MCProductOf == [d \in Drafts |-> IF d \in {d2, d4} THEN BL ELSE PL]
MCUser == [c \in Drafts \union Activations |->
              CASE c \in {d1, d4, a2} -> alice
                [] c = a4 -> carol
                [] OTHER -> bob]
=============================================================================
