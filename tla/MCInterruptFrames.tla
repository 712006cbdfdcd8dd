------------------------- MODULE MCInterruptFrames -------------------------
(* InterruptFrames with registers that can be told apart.                  *)
EXTENDS InterruptFrames

MCRegisterFiles ==
    {[r \in Registers |-> 100 + CHOOSE i \in 1..Saves : Pushed[i] = r],
     [r \in Registers |-> IF r = "rax" THEN 201 ELSE 100]}
=============================================================================
