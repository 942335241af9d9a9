-------------------------------- MODULE MCCard --------------------------------
(* Small instances of CustomerCard for TLC.                                *)
EXTENDS CustomerCard

CONSTANTS nameColumn, otherValue

(* Other members rename the customer, change the second field or remove it. *)
SampleSaves == {<<nameColumn, otherValue>>, <<2, otherValue>>, <<2, Absent>>}

(* Other members change the second field.                                  *)
SecondFieldSaves == {<<2, otherValue>>}
=============================================================================
