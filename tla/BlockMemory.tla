---------------------------- MODULE BlockMemory ----------------------------
(* The memory of the simulator, verilate/vsrc/memory.cpp: built from the      *)
(* image file (parse_memory_file of common.cpp and BlockMemory::map), then    *)
(* loaded from and stored to by the bus device, and set back to the image by  *)
(* reset.  A line of the file is four bytes, the lowest first; the byte at    *)
(* address a of the image is written a + 1 here, and Zero is a cleared byte.  *)
EXTENDS LoadOp

CONSTANTS NLines,      \* 32-bit numbers in the file
          NWords,      \* size() / 8, enough for the file
          Strobes,     \* strobes of the program's stores
          MaxStores

VARIABLES mem, saved, i, stores,
          fresh        \* history: nothing stored since the start or a reset
vars == <<mem, saved, i, stores, fresh>>

Words == 0 .. NWords - 1
Image(a) == a + 1
NBytes == 4 * NLines
Written == -1          \* a byte stored by the program

Init == /\ mem = [w \in Words |-> [k \in Lanes |-> Zero]]
        /\ saved = mem
        /\ i = 0 /\ stores = 0 /\ fresh = TRUE

(* word_t mask = ~(0xffu << shamt), value & mask.  The shift is of an         *)
(* unsigned int: from 32 bits on it is undefined, and comes out as a shift by *)
(* shamt - 32 (the processor's) or as 0 (the compiler's); the complement has  *)
(* 32 bits, and extending it to a word_t clears the upper lanes.              *)
Upper == 4 .. 7
Shifted(lane) == IF lane < 4 THEN {{lane}} ELSE {{lane - 4}, {}}

MapByte == /\ i < NBytes
           /\ \E s \in Shifted(i % 8) :
                mem' = [mem EXCEPT ![i \div 8] =
                          [k \in Lanes |-> IF k = i % 8 THEN Image(i)
                                           ELSE IF k \in Upper \cup s THEN Zero ELSE @[k]]]
           /\ i' = i + 1
           /\ UNCHANGED <<saved, stores, fresh>>
Built == i = NBytes
Save == /\ Built
        /\ saved' = mem /\ i' = i + 1
        /\ UNCHANGED <<mem, stores, fresh>>

Running == i = NBytes + 1
Store == /\ Running /\ stores < MaxStores
         /\ \E w \in Words, s \in Strobes :
              mem' = [mem EXCEPT ![w] = Write(@, s, [k \in Lanes |-> Written])]
         /\ stores' = stores + 1 /\ fresh' = FALSE
         /\ UNCHANGED <<saved, i>>
Reset == /\ Running
         /\ mem' = saved /\ fresh' = TRUE
         /\ UNCHANGED <<saved, i, stores>>

Next == MapByte \/ Save \/ Store \/ Reset
Spec == Init /\ [][Next]_vars

(* The memory a program starts from, and finds again after a reset, is the    *)
(* image given with -m ("File path of memory initialization file.",           *)
(* verilate/include/runner.h): the byte of the file at each address.          *)
ImageThere == Running /\ fresh =>
                  \A a \in 0 .. NBytes - 1 : mem[a \div 8][a % 8] = Image(a)
=============================================================================
