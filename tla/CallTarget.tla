----------------------------- MODULE CallTarget -----------------------------
(***************************************************************************)
(* What the package knows of call instructions (parser/arch.go): their     *)
(* length, where their opcode is, the type of their relocation, and the    *)
(* address one calls.                                                      *)
(*                                                                         *)
(* Bytes are numbers below Byte, and the address space ends at Word; in    *)
(* the code these are 2^8 and 2^64.                                        *)
(***************************************************************************)
EXTENDS Integers, Sequences

CONSTANTS
    Byte,         \* the values of a byte
    Word,         \* the values of an address
    CallOpcode,   \* of amd64, 0xe8
    BranchLink    \* of arm64: the first of the four opcode bytes, 0x94

(* An address is some whole bytes, more than one.  The low two bits of the *)
(* opcode byte of arm64 belong to the operand.                             *)
ASSUME CallAssumption ==
    /\ Byte \in Nat \ {0}
    /\ Word \in Nat \ {0} /\ Word % 4 = 0 /\ Word % Byte = 0 /\ Word > Byte
    /\ CallOpcode \in 0..(Byte - 1)
    /\ BranchLink \in Nat \ {0} /\ BranchLink % 4 = 0 /\ BranchLink + 3 < Byte

Machines == {"amd64", "arm64", "other"}

(* A machine that is not in the map has the zero value, with the function  *)
(* target nil; relocations of type 0 do nothing (R_*_NONE).                *)
arches ==
    [m \in Machines |->
        CASE m = "amd64" -> [callLen |-> 5, relaOffset |-> 1, opcodeOffset |-> 0,
                             opcodes |-> {CallOpcode}, callRelocType |-> "call"]
          [] m = "arm64" -> [callLen |-> 4, relaOffset |-> 0, opcodeOffset |-> 3,
                             opcodes |-> {BranchLink, BranchLink + 3}, callRelocType |-> "call"]
          [] m = "other" -> [callLen |-> 0, relaOffset |-> 0, opcodeOffset |-> 0,
                             opcodes |-> {0}, callRelocType |-> "none"]]

(* The byte at offset i of a section. *)
ByteAt(text, i) == text[i + 1]

Byte3 == Byte * Byte * Byte

(* binary.LittleEndian.Uint32 of the bytes at i, its low 24 bits and all.  *)
Low24(text, i) == ByteAt(text, i) + Byte * ByteAt(text, i + 1) + Byte * Byte * ByteAt(text, i + 2)
Uint32(text, i) == Low24(text, i) + Byte3 * ByteAt(text, i + 3)

(* The number with n values that is written as u, in two's complement.     *)
SignedOf(u, n) == IF 2 * u < n THEN u ELSE u - n

(* Of an arm64 call, the 24 bits below the opcode byte; with the second    *)
(* opcode, ones above them.                                                *)
Offset(text, i, opcode) ==
    IF opcode = BranchLink + 3 THEN Low24(text, i) - Byte3 ELSE Low24(text, i)

(* arch.target: the address the instruction at i, which is at pc, calls.   *)
Target(machine, text, i, pc, opcode) ==
    IF machine = "amd64"
    THEN (pc + SignedOf(Uint32(text, i + 1), Byte * Byte3) + arches[machine].callLen) % Word
    ELSE (pc + 4 * Offset(text, i, opcode)) % Word
=============================================================================
