------------------------------- MODULE Ciphers -------------------------------
(***************************************************************************)
(* One key for both cores: main() makes the sub-keys of des from the first *)
(* eight bytes of input_key and the schedule of aes from all sixteen, and  *)
(* the raw-data switch gives the blocks to one of the cores.               *)
(*                                                                         *)
(* Sources: src/main.cc:558-600, HLS/des/des.cpp:500-533,                  *)
(* HLS/aes/AES.cpp:115-143.                                                *)
(***************************************************************************)
EXTENDS Des, Aes

\* The answers another implementation gives: records of a core, a key of 16
\* bytes, a block and what it becomes under that key.
CONSTANT Answers

ASSUME AnswersAssumption ==
    \A a \in Answers :
        /\ a.core \in {"des", "aes"} /\ a.key \in Block
        /\ a.in \in [1 .. (IF a.core = "des" THEN 8 ELSE 16) -> Byte]

VARIABLES
    input_key,
    selected    \* the core that axis_switch_raw_data feeds

mainVars == <<input_key, selected>>
vars     == <<mainVars, desVars, aesVars>>

\* The bits of a sequence of bytes, the highest of each first.
BitsOf(bytes) ==
    [n \in 1 .. 8 * Len(bytes) |->
        (bytes[(n - 1) \div 8 + 1] \div <<128, 64, 32, 16, 8, 4, 2, 1>>[((n - 1) % 8) + 1]) % 2]

\* Only keys and blocks with a known answer are tried.
Asked(core) == {a.in : a \in {b \in Answers : b.core = core /\ b.key = input_key}}

Init ==
    /\ input_key \in {a.key : a \in Answers}
    /\ selected \in {"des", "aes"}
    /\ DesInit(BitsOf(SubSeq(input_key, 1, 8)))
    /\ AesInit(input_key)

\* generate_sub_keys(input_key, key_sets), then KeyExpansion(input_key, ..).
Expand ==
    \/ generate_sub_keys /\ UNCHANGED <<mainVars, aesVars>>
    \/ i = 17 /\ ExpandWord /\ UNCHANGED <<mainVars, desVars>>

\* Both schedules are complete.
Loaded == i = 17 /\ WordsDone

DesStep ==
    /\ Loaded /\ selected = "des"
    /\ \/ \E t \in Asked("des"), m \in Bit : ReadBlock(BitsOf(t), m)
       \/ Answer
    /\ UNCHANGED <<mainVars, aesVars>>

AesStep ==
    /\ Loaded /\ selected = "aes"
    /\ (\E t \in Asked("aes") : ReadIn(t)) \/ AesCipher
    /\ UNCHANGED <<mainVars, desVars>>

Next == Expand \/ DesStep \/ AesStep

Spec == Init /\ [][Next]_vars

-----------------------------------------------------------------------------
(* Properties *)

TypeOK == DesTypeOK /\ AesTypeOK

\* The program and the cores compute DES and AES: the schedule is as tabled,
\* and for the same key and block a core gives the answer of another
\* implementation, so a host that has the key can use any of them to decrypt (all
\* tables, both schedules and both cores together; main.cc:374-418,
\* HLS/des/des.cpp:250-494, HLS/aes/AES.cpp:36-143).
KnownAnswer ==
    /\ ExpandsAsTabled
    /\ \A a \in Answers :
          a.key = input_key =>
              IF a.core = "des"
              THEN step = "write" /\ mode = 1 /\ message_piece = BitsOf(a.in)
                      => processed_piece = BitsOf(a.out)
              ELSE aes_step = "written" /\ aes_in = a.in => aes_out = a.out
=============================================================================
