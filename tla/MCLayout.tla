------------------------------ MODULE MCLayout ------------------------------
(* Constants of Layout for TLC: pages of four bytes, words of seven bits.  *)
EXTENDS Layout

(* Entries of a byte, of a page and of two; areas that end in a page, at   *)
(* its end, and where a u64 does; one configuration the server refuses.    *)
Sizes == {[ring_size |-> 4, slot_entry_size |-> 1, data_size |-> 5],
          [ring_size |-> 2, slot_entry_size |-> 2, data_size |-> 0],
          [ring_size |-> 8, slot_entry_size |-> 4, data_size |-> 8],
          [ring_size |-> 8, slot_entry_size |-> 8, data_size |-> 1],
          [ring_size |-> 6, slot_entry_size |-> 2, data_size |-> 1],
          [ring_size |-> 4, slot_entry_size |-> 4, data_size |-> 127],
          [ring_size |-> 64, slot_entry_size |-> 64, data_size |-> 125]}

AtMostTwo == {<<>>} \cup {<<a>> : a \in Sizes} \cup {<<a, b>> : a, b \in Sizes}
SomeFiles == 2 .. 60
=============================================================================
