-------------------------------- MODULE MCBoot --------------------------------
(* Boot with three fields in the place of the seven: two that the load       *)
(* checks and, between them, one that it does not (the Wi-Fi password).      *)
EXTENDS Boot

MCSize    == <<3, 2, 4>>
MCChecked == {1, 3}
\* Lines fit their fields, some so exactly that fgets leaves the newline behind, or are too
\* long: typed at the first prompt, five characters are cut twice and reach the last field.
MCLines   == [f \in Fields |-> {0, 1, MCSize[f] - 1, 5}]
\* The datasheets: 80 ms, and 6.4 ms with one sample each of pressure and temperature.
MCLongest == [c \in Chips |-> IF c = "aht20" THEN 80 ELSE 7]
===============================================================================
