---------------------------- MODULE MCOutpcBuffer ----------------------------
(***************************************************************************)
(* OutpcBuffer on frames of length 0, 1 and 2: two of the same length and  *)
(* different bytes, so that a torn copy shows, and a shorter one, so that  *)
(* bytes left over from a longer frame would show.                         *)
(***************************************************************************)
EXTENDS OutpcBuffer

MCByte   == {0, 1, 2}
MCFrames == { << >>, <<2>>, <<1, 1>>, <<2, 2>> }
MCFields == {"rpm", "tps", "map"}
MCNames  == MCFields \cup {"nope"}
MCLayout == [x \in MCFields |->
               CASE x = "rpm" -> [offset |-> 0, size |-> 2]
                 [] x = "tps" -> [offset |-> 0, size |-> 1]
                 [] x = "map" -> [offset |-> 1, size |-> 1]]

(* An empty get_values, a get_value, a get_values with an unknown name,    *)
(* and a get_all.                                                          *)
MCRequests == { << >>, <<"rpm">>, <<"map", "nope">>, <<"tps", "map", "rpm">> }

(* Blocks has two addresses: enough for realloc to move the block or not,  *)
(* and for an address to be used again.                                    *)
==============================================================================
