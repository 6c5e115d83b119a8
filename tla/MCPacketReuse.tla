----------------------------- MODULE MCPacketReuse -----------------------------
(* Plans that give the same slots different kinds and layouts.             *)
EXTENDS PacketReuse

CONSTANTS c1

Spec4(slot, kind, layout, width) == [slot |-> slot, kind |-> kind, layout |-> layout, width |-> width]
Item(slot, kind, width, fills) == [slot |-> slot, kind |-> kind, width |-> width, fills |-> fills]
Kernel(access, slots, kind, width) == [access |-> access, slots |-> slots, kind |-> kind, width |-> width]
Slot(slot, kind) == [slot |-> slot, kind |-> kind]
StaticOf(slot, kind) == [slot |-> slot, kind |-> kind, data |-> <<{Static}>>]

(* One value in and one out, as tests/stack_integration.rs has it.         *)
Toy == [specs |-> <<Spec4(1, "u32", "scalar", 1), Spec4(2, "u32", "scalar", 1)>>, statics |-> <<>>,
        encode |-> <<Item(1, "u32", 1, TRUE), Item(2, "u32", 1, FALSE)>>,
        stages |-> <<<<Kernel("exclusive", <<1, 2>>, "u32", 1)>>>>, decode |-> Slot(2, "u32")]

(* Vectors, a static buffer and an output that grows in the first stage.   *)
Wide == [specs |-> <<Spec4(1, "f32", "vector", 2), Spec4(2, "f32", "dynamic", 0), Spec4(3, "f32", "dynamic", 0)>>,
         statics |-> <<StaticOf(3, "f32")>>,
         encode |-> <<Item(1, "f32", 2, TRUE), Item(2, "f32", 0, FALSE)>>,
         stages |-> <<<<Kernel("grow", <<1, 2>>, "f32", 1)>>,
                      <<Kernel("groups", <<1, 3>>, "f32", 1), Kernel("groups", <<2>>, "f32", 2)>>>>,
         decode |-> Slot(2, "f32")]

(* The output is left to the kernel.                                       *)
Lazy == [specs |-> <<Spec4(1, "u32", "scalar", 1), Spec4(2, "u32", "scalar", 1)>>, statics |-> <<>>,
         encode |-> <<Item(1, "u32", 1, TRUE)>>,
         stages |-> <<<<Kernel("grow", <<1, 2>>, "u32", 1)>>>>, decode |-> Slot(2, "u32")]

(* A kernel reads a slot that nobody sets.                                 *)
Blind == [specs |-> <<Spec4(2, "f32", "dynamic", 0), Spec4(3, "f32", "dynamic", 0)>>, statics |-> <<>>,
          encode |-> <<Item(3, "f32", 1, FALSE)>>,
          stages |-> <<<<Kernel("exclusive", <<2, 3>>, "f32", 1)>>>>, decode |-> Slot(3, "f32")]

(* A kernel wants such a slot, and the next one outgrows its declaration.  *)
Late == [specs |-> <<Spec4(2, "u32", "dynamic", 0), Spec4(3, "u32", "scalar", 1)>>, statics |-> <<>>,
         encode |-> <<Item(3, "u32", 1, TRUE)>>,
         stages |-> <<<<Kernel("exclusive", <<3, 2>>, "u32", 1)>>, <<Kernel("grow", <<3>>, "u32", 2)>>>>,
         decode |-> Slot(3, "u32")]

(* No stages.                                                              *)
Echo == [specs |-> <<Spec4(3, "u32", "scalar", 1)>>, statics |-> <<>>,
         encode |-> <<Item(3, "u32", 1, TRUE)>>, stages |-> <<>>, decode |-> Slot(3, "u32")]

Twice == [Toy EXCEPT !.specs = Append(@, Spec4(1, "u32", "scalar", 1))]

MCPlans == <<Toy, Wide, Lazy, Blind, Late, Echo, Twice>>
=============================================================================
