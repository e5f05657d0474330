-------------------------------- MODULE Inner --------------------------------
(***************************************************************************)
(* The inner interpreter: pfCatch of src/csrc/pf_inner.c runs threaded     *)
(* code on the stacks of one task. Code, data and both stacks are cells of *)
(* one memory, addressed by number; an address is a cell, CODE_BASE is     *)
(* address 0 and a cell is one address long, like a character; instances   *)
(* have cells of 10 bits. A primitive is its token, a secondary the        *)
(* address of its code. CATCH calls pfCatch again: the registers of the    *)
(* calls that wait are in "calls", those of the running one in "m".        *)
(***************************************************************************)
EXTENDS Text, Files

CONSTANTS CodeSize,    \* cells of the code segment
          StackDepth,  \* DEFAULT_USER_DEPTH
          ReturnDepth, \* DEFAULT_RETURN_DEPTH
          TIB_SIZE,    \* of gScratch
          MaxCatch     \* bound: calls of pfCatch nested

\* The modelled part of enum cforth_primitive_ids, in its order.
Primitives ==
  <<"EXIT", "1MINUS", "1PLUS", "2DUP", "2LITERAL_P", "2MINUS", "2OVER", "2PLUS", "2SWAP",
    "2_R_FETCH", "2_R_FROM", "2_TO_R", "ACCEPT_P", "ALITERAL_P", "AND", "ARSHIFT",
    "BODY_OFFSET", "BRANCH", "BYE", "CFETCH", "CMOVE", "CMOVE_UP", "COMPARE", "COMP_EQUAL",
    "COMP_GREATERTHAN", "COMP_LESSTHAN", "COMP_NOT_EQUAL", "COMP_U_GREATERTHAN",
    "COMP_U_LESSTHAN", "COMP_ZERO_EQUAL", "COMP_ZERO_GREATERTHAN", "COMP_ZERO_LESSTHAN",
    "COMP_ZERO_NOT_EQUAL", "CR", "CREATE_P", "CSTORE", "DEFER_P", "DEPTH", "DIVIDE", "DOT",
    "DO_P", "DROP", "DUP", "D_MINUS", "D_MTIMES", "D_MUSMOD", "D_PLUS", "D_UMSMOD",
    "D_UMTIMES", "EMIT_P", "ERRORQ_P", "EXECUTE", "FETCH", "FILE_CLOSE", "FILE_CREATE",
    "FILE_OPEN", "FILE_POSITION", "FILE_READ", "FILE_REPOSITION", "FILE_RO", "FILE_RW",
    "FILE_SIZE", "FILE_WRITE", "FILL", "FLUSHEMIT", "HERE", "NUMBERQ_P", "I", "J", "KEY", "LEAVE_P",
    "LITERAL_P", "LOCAL_ENTRY", "LOCAL_EXIT", "LOCAL_FETCH", "LOCAL_FETCH_1", "LOCAL_FETCH_2",
    "LOCAL_FETCH_3", "LOCAL_FETCH_4", "LOCAL_FETCH_5", "LOCAL_FETCH_6", "LOCAL_FETCH_7",
    "LOCAL_FETCH_8", "LOCAL_PLUSSTORE", "LOCAL_STORE", "LOCAL_STORE_1", "LOCAL_STORE_2",
    "LOCAL_STORE_3", "LOCAL_STORE_4", "LOCAL_STORE_5", "LOCAL_STORE_6", "LOCAL_STORE_7",
    "LOCAL_STORE_8", "LOOP_P", "LSHIFT", "MAX", "MIN", "MINUS", "NOOP", "OR", "OVER", "PICK",
    "PLUS", "PLUSLOOP_P", "PLUS_STORE", "QDO_P", "QDUP", "QUIT_P", "ROLL", "ROT", "RP_FETCH",
    "RP_STORE", "RSHIFT", "R_DROP", "R_FETCH", "R_FROM", "SCAN", "SKIP", "SOURCE",
    "SOURCE_SET", "SP_FETCH", "SP_STORE", "STORE", "SWAP", "TIMES", "TO_R", "TYPE", "VAR_BASE",
    "VAR_OUT", "VAR_RETURN_CODE", "VAR_TO_IN", "WORD", "XOR", "ZERO_BRANCH", "CATCH", "THROW", "FILE_WO",
    "FILE_BIN", "FILE_DELETE", "FILE_FLUSH", "FILE_RENAME", "FILE_RESIZE", "VAR_BYE_CODE">>

Names == ToSet(Primitives)
ID == [n \in Names |-> (CHOOSE i \in DOMAIN Primitives : Primitives[i] = n) - 1]
gNumPrimitives == Len(Primitives)
IsTokenPrimitive(xt) == xt < gNumPrimitives
CREATE_BODY_OFFSET == 3

(* The memory: code, the FakeSecondary arrays, the data stack with the     *)
(* cells that catch mild underflows, the return stack, the variables.      *)
STACK_SAFETY == 2
CodeBase == gNumPrimitives
FakeSecondary(level) == CodeBase + CodeSize + 2 * (level - 1)
StackLimit == FakeSecondary(MaxCatch + 1)
StackBase == StackLimit + StackDepth
ReturnLimit == StackBase + STACK_SAFETY
ReturnBase == ReturnLimit + ReturnDepth
\* Of the task td_IN, td_SourceNum, td_SourcePtr, td_OUT, Base and Scratch, and
\* two global variables.
td_IN == ReturnBase
td_SourceNum == ReturnBase + 1
td_SourcePtr == ReturnBase + 2
td_OUT == ReturnBase + 3
gVarBase == ReturnBase + 4
gVarReturnCode == ReturnBase + 5
gVarByeCode == ReturnBase + 6
gScratch == ReturnBase + 7
Addresses == CodeBase .. gScratch + TIB_SIZE - 1

ASSUME InnerAssumption ==
  /\ CodeSize \in Nat \ {0} /\ StackDepth \in Nat \ {0} /\ ReturnDepth \in Nat \ {0}
  /\ MaxCatch \in Nat \ {0}
  /\ TIB_SIZE \in Nat \ {0}
  /\ gScratch + TIB_SIZE < W

VARIABLES
  m,     \* the running pfCatch: mem, the registers, the return addresses owed,
         \* the files, what is typed next and what was printed last
  calls  \* the registers of the calls of pfCatch that wait in CATCH, innermost last

-----------------------------------------------------------------------------
(* The macros.  v is an m.                                                 *)

M_PUSH(v, x) == [v EXCEPT !.sp = @ - 1, !.mem[v.sp - 1] = x]
M_STACK(v, n) == v.mem[v.sp + n]
M_DROP(v) == [v EXCEPT !.tos = M_STACK(v, 0), !.sp = @ + 1]
PUSH_TOS(v, x) == [M_PUSH(v, v.tos) EXCEPT !.tos = x]

M_R_PUSH(v, x) == [v EXCEPT !.rp = @ - 1, !.mem[v.rp - 1] = x]
M_R_PICK(v, n) == v.mem[v.rp + n]
M_R_DROP(v, n) == [v EXCEPT !.rp = @ + n]

\* The offset is relative to the address of the offset.
M_BRANCH(v) == [v EXCEPT !.ip = Wrap(@ + v.mem[@])]
SkipOffset(v) == [v EXCEPT !.ip = @ + 1]

\* The data stack, top first.
Stack(v) == [i \in 1 .. StackBase - v.sp + 1 |-> IF i = 1 THEN v.tos ELSE M_STACK(v, i - 2)]

SAVE_REGISTERS(v) ==
  LET pushed == M_PUSH(v, v.tos)
  IN [pushed EXCEPT !.tdReturn = v.rp, !.tdStack = pushed.sp]
LOAD_REGISTERS(v) ==
  [v EXCEPT !.tos = v.mem[v.tdStack], !.sp = v.tdStack + 1, !.rp = v.tdReturn]

\* Mutant of M_THROW: the data stack stays as deep as it was.
M_THROW_DEEP(v, err) == [v EXCEPT !.err = err, !.rp = v.irp, !.owed = <<>>]
\* "Will cause return to 'C'"
M_THROW(v, err) == [v EXCEPT !.err = err, !.rp = v.irp, !.sp = v.isp, !.owed = <<>>]

(* The return addresses a secondary, EXECUTE and CATCH owe (history):      *)
(* where to go on, what the caller has on the return stack, and the word   *)
(* called with its arguments, place in the source and files.               *)
Owe(v, xt) == [v EXCEPT !.owed = Append(@,
                 [ip |-> v.ip, rp |-> v.rp, lp |-> v.lp,
                  below |-> [a \in v.rp .. ReturnBase - 1 |-> v.mem[a]],
                  xt |-> xt, stack |-> Stack(v), in |-> v.mem[td_IN], fs |-> v.fs])]
Paid(v) == [v EXCEPT !.owed = IF @ = <<>> THEN @ ELSE Front(@)]

-----------------------------------------------------------------------------
(* pfCatch.                                                                *)

\* Its start, at the given nesting level.
Catch(v, level, xt) ==
  LET w == LOAD_REGISTERS(v)
  IN [w EXCEPT !.mem[FakeSecondary(level)] = 0,
               !.mem[FakeSecondary(level) + 1] = ID["EXIT"],
               !.irp = w.rp, !.isp = w.sp, !.ip = NULL, !.lp = NULL,
               !.token = xt, !.err = 0, !.running = TRUE, !.owed = <<>>]

Registers == {"tos", "sp", "rp", "ip", "lp", "irp", "isp", "err", "owed", "token", "running"}

\* The end of the loop: the next token, and "while( (InitialReturnStack - TORPTR) > 0 )".
EndOfLoop(v) ==
  LET w == IF v.ip = NULL THEN v ELSE [v EXCEPT !.token = v.mem[v.ip], !.ip = @ + 1]
  IN [w EXCEPT !.running = w.irp - w.rp > 0]

Proceed(v) == m' = EndOfLoop(v) /\ UNCHANGED calls

At(name) == m.running /\ m.token = ID[name]
Level == Len(calls) + 1

\* A secondary: "thread down code tree until we hit a primitive".
Nest ==
  /\ m.running /\ ~IsTokenPrimitive(m.token)
  /\ m' = [M_R_PUSH(Owe(m, m.token), m.ip) EXCEPT !.token = m.mem[m.token], !.ip = m.token + 1]
  /\ UNCHANGED calls

EXIT == At("EXIT") /\ Proceed(M_R_DROP([Paid(m) EXCEPT !.ip = M_R_PICK(m, 0)], 1))

\* A primitive is executed from a fake secondary.
EXECUTE ==
  /\ At("EXECUTE")
  /\ LET v == M_R_PUSH(Owe(m, NULL), m.ip)
         fake == [v EXCEPT !.mem[FakeSecondary(Level)] = m.tos, !.ip = FakeSecondary(Level)]
     IN Proceed(M_DROP(IF IsTokenPrimitive(m.tos) THEN fake ELSE [v EXCEPT !.ip = m.tos]))

CATCH ==
  /\ At("CATCH") /\ Level < MaxCatch
  /\ m' = Catch(SAVE_REGISTERS(M_DROP(m)), Level + 1, m.tos)
  /\ calls' = Append(calls, [f \in Registers |-> Owe(m, NULL)[f]])

\* The local variables of a call of pfCatch that waited.
Resume(v, call) == [f \in DOMAIN v |-> IF f \in Registers THEN call[f] ELSE v[f]]

\* Back in the CATCH that called pfCatch.
Uncatch ==
  /\ ~m.running /\ calls # <<>>
  /\ m' = EndOfLoop(Paid(PUSH_TOS(LOAD_REGISTERS(Resume(SAVE_REGISTERS(m), Last(calls))), m.err)))
  /\ calls' = Front(calls)

THROW == At("THROW") /\ Proceed(IF m.tos # 0 THEN M_THROW(m, m.tos) ELSE M_DROP(m))

\* ( flag num -- , quit if flag true )
ERRORQ_P ==
  /\ At("ERRORQ_P")
  /\ LET v == M_DROP(m) IN Proceed(IF v.tos # 0 THEN M_THROW(v, m.tos) ELSE M_DROP(v))

THROW_QUIT == W - 56
THROW_BYE == W - 256
QUIT_P == At("QUIT_P") /\ Proceed(M_THROW(m, THROW_QUIT))
BYE == At("BYE") /\ Proceed(M_THROW(m, THROW_BYE))

-----------------------------------------------------------------------------
(* Literals and branches.                                                  *)

LITERAL_P == At("LITERAL_P") /\ Proceed(SkipOffset(PUSH_TOS(m, m.mem[m.ip])))

\* CODE_BASE is address 0.
ALITERAL_P == At("ALITERAL_P") /\ Proceed(SkipOffset(PUSH_TOS(m, m.mem[m.ip])))

\* "hi part stored first, put on top of stack"
TwoLITERAL_P ==
  /\ At("2LITERAL_P")
  /\ LET v == PUSH_TOS(m, m.mem[m.ip]) IN Proceed([M_PUSH(v, m.mem[m.ip + 1]) EXCEPT !.ip = @ + 2])

\* CODE_HERE
HERE == At("HERE") /\ Proceed(PUSH_TOS(m, m.here))

\* "Insptr points after code start."
CREATE_P == At("CREATE_P") /\ Proceed(PUSH_TOS(m, m.ip - 1 + CREATE_BODY_OFFSET))
BODY_OFFSET == At("BODY_OFFSET") /\ Proceed(PUSH_TOS(m, CREATE_BODY_OFFSET))

\* The token of a deferred word is followed by the word it does.
DEFER_P == At("DEFER_P") /\ Proceed(m)
NOOP == At("NOOP") /\ Proceed(m)

BRANCH == At("BRANCH") /\ Proceed(M_BRANCH(m))

ZERO_BRANCH ==
  /\ At("ZERO_BRANCH")
  /\ Proceed(M_DROP(IF m.tos = 0 THEN M_BRANCH(m) ELSE SkipOffset(m)))

-----------------------------------------------------------------------------
(* Loops: the limit is on the return stack, the index below it.            *)

\* ( limit start -- ) ( R: -- start limit )
EnterLoop(v) == M_R_PUSH(M_R_PUSH(v, v.tos), M_STACK(v, 0))

DO_P == At("DO_P") /\ Proceed(M_DROP([EnterLoop(m) EXCEPT !.sp = @ + 1]))

QDO_P ==
  /\ At("QDO_P")
  /\ LET v == IF M_STACK(m, 0) = m.tos THEN M_BRANCH(m) ELSE SkipOffset(EnterLoop(m))
     IN Proceed(M_DROP([v EXCEPT !.sp = @ + 1]))

\* ( R: index limit -- | index limit )
NextRound(v, index) == M_BRANCH([v EXCEPT !.mem[v.rp + 1] = index])
ExitLoop(v) == SkipOffset(M_R_DROP(v, 2))

LOOP_P ==
  /\ At("LOOP_P")
  /\ LET index == Wrap(M_R_PICK(m, 1) + 1)
     IN Proceed(IF index = M_R_PICK(m, 0) THEN ExitLoop(m) ELSE NextRound(m, index))

\* Mutant of PLUSLOOP_P: the test of (LOOP), which jumps over the limit.
PLUSLOOP_EQ ==
  /\ At("PLUSLOOP_P")
  /\ LET index == Wrap(M_R_PICK(m, 1) + m.tos)
     IN Proceed(M_DROP(IF index = M_R_PICK(m, 0) THEN ExitLoop(m) ELSE NextRound(m, index)))

PLUSLOOP_P ==
  /\ At("PLUSLOOP_P")
  /\ LET limit == M_R_PICK(m, 0)
         index == M_R_PICK(m, 1)
         v == IF LimitCrossed(index, limit, m.tos) THEN ExitLoop(m)
              ELSE NextRound(m, Wrap(index + m.tos))
     IN Proceed(M_DROP(v))

\* Mutant of LEAVE_P: only the limit is dropped.
LEAVE_ONE == At("LEAVE_P") /\ Proceed(M_BRANCH(M_R_DROP(m, 1)))

LEAVE_P == At("LEAVE_P") /\ Proceed(M_BRANCH(M_R_DROP(m, 2)))

I == At("I") /\ Proceed(PUSH_TOS(m, M_R_PICK(m, 1)))
J == At("J") /\ Proceed(PUSH_TOS(m, M_R_PICK(m, 3)))

-----------------------------------------------------------------------------
(* Locals, at LocalsPtr - 1 and below on the return stack.                 *)

\* ( x0 x1 ... xn n -- )  The frame begins with the caller's LocalsPtr.
LOCAL_ENTRY ==
  /\ At("LOCAL_ENTRY")
  /\ LET n == m.tos
         v == M_R_PUSH(m, m.lp)
         top == v.rp - n
         w == [v EXCEPT !.lp = v.rp, !.rp = top, !.sp = @ + n,
                        !.mem = [a \in top .. v.rp - 1 |-> M_STACK(m, a - top)] @@ @]
     IN Proceed(M_DROP(w))

\* Mutant of LOCAL_EXIT: the caller's LocalsPtr is not restored.
LOCAL_EXIT_KEEP == At("LOCAL_EXIT") /\ Proceed([m EXCEPT !.rp = m.lp + 1])

LOCAL_EXIT == At("LOCAL_EXIT") /\ Proceed([m EXCEPT !.rp = m.lp + 1, !.lp = m.mem[m.lp]])

LOCAL_FETCH == At("LOCAL_FETCH") /\ Proceed([m EXCEPT !.tos = m.mem[m.lp - @]])

LOCAL_STORE ==
  /\ At("LOCAL_STORE")
  /\ Proceed(M_DROP([m EXCEPT !.mem[m.lp - m.tos] = M_STACK(m, 0), !.sp = @ + 1]))

LOCAL_PLUSSTORE ==
  /\ At("LOCAL_PLUSSTORE")
  /\ Proceed(M_DROP([m EXCEPT !.mem[m.lp - m.tos] = Wrap(@ + M_STACK(m, 0)), !.sp = @ + 1]))

ShortLocals ==
  LET fetch == <<"LOCAL_FETCH_1", "LOCAL_FETCH_2", "LOCAL_FETCH_3", "LOCAL_FETCH_4",
                 "LOCAL_FETCH_5", "LOCAL_FETCH_6", "LOCAL_FETCH_7", "LOCAL_FETCH_8">>
      store == <<"LOCAL_STORE_1", "LOCAL_STORE_2", "LOCAL_STORE_3", "LOCAL_STORE_4",
                 "LOCAL_STORE_5", "LOCAL_STORE_6", "LOCAL_STORE_7", "LOCAL_STORE_8">>
  IN {<<i, fetch[i], store[i]>> : i \in 1 .. 8}

LOCAL_FETCH_N == \E l \in ShortLocals : At(l[2]) /\ Proceed(PUSH_TOS(m, m.mem[m.lp - l[1]]))

LOCAL_STORE_N ==
  \E l \in ShortLocals : At(l[3]) /\ Proceed(M_DROP([m EXCEPT !.mem[m.lp - l[1]] = m.tos]))

-----------------------------------------------------------------------------
(* The return stack.                                                       *)

TO_R == At("TO_R") /\ Proceed(M_DROP(M_R_PUSH(m, m.tos)))
R_FROM == At("R_FROM") /\ Proceed(M_R_DROP(PUSH_TOS(m, M_R_PICK(m, 0)), 1))
R_FETCH == At("R_FETCH") /\ Proceed(PUSH_TOS(m, M_R_PICK(m, 0)))
R_DROP == At("R_DROP") /\ Proceed(M_R_DROP(m, 1))

TwoTO_R ==
  /\ At("2_TO_R")
  /\ LET v == M_R_PUSH(M_R_PUSH(m, M_STACK(m, 0)), m.tos) IN Proceed(M_DROP([v EXCEPT !.sp = @ + 1]))

TwoR_FROM ==
  /\ At("2_R_FROM")
  /\ LET v == PUSH_TOS(m, M_R_PICK(m, 0)) IN Proceed(M_R_DROP(M_PUSH(v, M_R_PICK(m, 1)), 2))

TwoR_FETCH ==
  /\ At("2_R_FETCH")
  /\ LET v == M_PUSH(m, m.tos) IN Proceed([M_PUSH(v, M_R_PICK(m, 1)) EXCEPT !.tos = M_R_PICK(m, 0)])

RP_FETCH == At("RP_FETCH") /\ Proceed(PUSH_TOS(m, m.rp))
RP_STORE == At("RP_STORE") /\ Proceed(M_DROP([m EXCEPT !.rp = m.tos]))

-----------------------------------------------------------------------------
(* The data stack.                                                         *)

DUP == At("DUP") /\ Proceed(PUSH_TOS(m, m.tos))
DROP == At("DROP") /\ Proceed(M_DROP(m))
QDUP == At("QDUP") /\ Proceed(IF m.tos # 0 THEN PUSH_TOS(m, m.tos) ELSE m)
OVER == At("OVER") /\ Proceed(PUSH_TOS(m, M_STACK(m, 0)))
SWAP == At("SWAP") /\ Proceed([m EXCEPT !.tos = M_STACK(m, 0), !.mem[m.sp] = m.tos])
PICKth == At("PICK") /\ Proceed([m EXCEPT !.tos = M_STACK(m, @)])
DEPTH == At("DEPTH") /\ LET v == M_PUSH(m, m.tos) IN Proceed([v EXCEPT !.tos = StackBase - v.sp])

\* ( a b c -- b c a )
ROT ==
  /\ At("ROT")
  /\ Proceed([m EXCEPT !.tos = M_STACK(m, 1), !.mem[m.sp + 1] = M_STACK(m, 0), !.mem[m.sp] = m.tos])

\* ( xu xu-1 ... x0 u -- xu-1 ... x0 xu ): the cells above xu move down on it.
ROLL ==
  /\ At("ROLL")
  /\ LET up == [a \in m.sp + 1 .. m.sp + m.tos |-> m.mem[a - 1]]
     IN Proceed([m EXCEPT !.tos = M_STACK(m, @), !.mem = up @@ @, !.sp = @ + 1])

\* ( a b -- a b a b )
TwoDUP == At("2DUP") /\ LET v == M_PUSH(m, m.tos) IN Proceed(M_PUSH(v, M_STACK(v, 1)))

\* ( a b c d -- a b c d a b )
TwoOVER ==
  /\ At("2OVER")
  /\ LET v == M_PUSH(m, m.tos)
         w == M_PUSH(v, M_STACK(v, 3))
     IN Proceed([w EXCEPT !.tos = M_STACK(w, 3)])

\* ( a b c d -- c d a b )
TwoSWAP ==
  /\ At("2SWAP")
  /\ Proceed([m EXCEPT !.tos = M_STACK(m, 1), !.mem[m.sp] = M_STACK(m, 2),
                       !.mem[m.sp + 1] = m.tos, !.mem[m.sp + 2] = M_STACK(m, 0)])

SP_FETCH == At("SP_FETCH") /\ LET v == M_PUSH(m, m.tos) IN Proceed([v EXCEPT !.tos = v.sp])
SP_STORE == At("SP_STORE") /\ Proceed(M_DROP([m EXCEPT !.sp = m.tos]))

-----------------------------------------------------------------------------
(* Cells and double cells.                                                 *)

OneMinus == At("1MINUS") /\ Proceed([m EXCEPT !.tos = Wrap(@ - 1)])
OnePlus == At("1PLUS") /\ Proceed([m EXCEPT !.tos = Wrap(@ + 1)])
TwoMinus == At("2MINUS") /\ Proceed([m EXCEPT !.tos = Wrap(@ - 2)])
TwoPlus == At("2PLUS") /\ Proceed([m EXCEPT !.tos = Wrap(@ + 2)])

BINARY_OP(v, x) == [v EXCEPT !.tos = x, !.sp = @ + 1]

MINUS == At("MINUS") /\ Proceed(BINARY_OP(m, Wrap(M_STACK(m, 0) - m.tos)))
PLUS == At("PLUS") /\ Proceed(BINARY_OP(m, Wrap(M_STACK(m, 0) + m.tos)))
TIMES == At("TIMES") /\ Proceed(BINARY_OP(m, Wrap(M_STACK(m, 0) * m.tos)))

MAX ==
  /\ At("MAX")
  /\ LET x == M_STACK(m, 0) IN Proceed(BINARY_OP(m, IF Signed(m.tos) > Signed(x) THEN m.tos ELSE x))

MIN ==
  /\ At("MIN")
  /\ LET x == M_STACK(m, 0) IN Proceed(BINARY_OP(m, IF Signed(m.tos) < Signed(x) THEN m.tos ELSE x))

\* ( a b -- flag )
Holds(name, a, b) ==
  CASE name = "COMP_EQUAL" -> a = b
    [] name = "COMP_NOT_EQUAL" -> a # b
    [] name = "COMP_GREATERTHAN" -> Signed(a) > Signed(b)
    [] name = "COMP_LESSTHAN" -> Signed(a) < Signed(b)
    [] name = "COMP_U_GREATERTHAN" -> a > b
    [] name = "COMP_U_LESSTHAN" -> a < b
Comparisons == {"COMP_EQUAL", "COMP_NOT_EQUAL", "COMP_GREATERTHAN", "COMP_LESSTHAN",
                "COMP_U_GREATERTHAN", "COMP_U_LESSTHAN"}
Compare == \E name \in Comparisons :
  At(name) /\ Proceed(BINARY_OP(m, Flag(Holds(name, M_STACK(m, 0), m.tos))))

\* ( a -- flag )
HoldsOfZero(name, a) ==
  CASE name = "COMP_ZERO_EQUAL" -> a = 0
    [] name = "COMP_ZERO_NOT_EQUAL" -> a # 0
    [] name = "COMP_ZERO_GREATERTHAN" -> Signed(a) > 0
    [] name = "COMP_ZERO_LESSTHAN" -> Signed(a) < 0
ZeroComparisons == {"COMP_ZERO_EQUAL", "COMP_ZERO_NOT_EQUAL", "COMP_ZERO_GREATERTHAN",
                    "COMP_ZERO_LESSTHAN"}
CompareZero == \E name \in ZeroComparisons :
  At(name) /\ Proceed([m EXCEPT !.tos = Flag(HoldsOfZero(name, @))])

\* n cells are replaced by those of r, the last of them on top.
Replace(n, r) ==
  LET base == m.sp + n - 1
      k == Len(r) - 1
  IN [m EXCEPT !.tos = Last(r), !.sp = base - k,
               !.mem = [a \in base - k .. base - 1 |-> r[base - a]] @@ @]

D_PLUS == At("D_PLUS") /\ Proceed(Replace(4, DPlus(M_STACK(m, 2), M_STACK(m, 1), M_STACK(m, 0), m.tos)))
D_MINUS == At("D_MINUS") /\ Proceed(Replace(4, DMinus(M_STACK(m, 2), M_STACK(m, 1), M_STACK(m, 0), m.tos)))
D_UMTIMES == At("D_UMTIMES") /\ Proceed(Replace(2, UMTimes(M_STACK(m, 0), m.tos)))
D_MTIMES == At("D_MTIMES") /\ Proceed(Replace(2, MTimes(M_STACK(m, 0), m.tos)))
D_UMSMOD == At("D_UMSMOD") /\ Proceed(Replace(3, UMSlashMod(M_STACK(m, 1), M_STACK(m, 0), m.tos)))
D_MUSMOD == At("D_MUSMOD") /\ Proceed(Replace(3, MUSlashMod(M_STACK(m, 1), M_STACK(m, 0), m.tos)))

-----------------------------------------------------------------------------
(* Memory.                                                                 *)

FETCH == At("FETCH") /\ Proceed([m EXCEPT !.tos = m.mem[@]])

STORE ==
  /\ At("STORE")
  /\ Proceed(M_DROP([m EXCEPT !.mem[m.tos] = M_STACK(m, 0), !.sp = @ + 1]))

PLUS_STORE ==
  /\ At("PLUS_STORE")
  /\ Proceed(M_DROP([m EXCEPT !.mem[m.tos] = Wrap(@ + M_STACK(m, 0)), !.sp = @ + 1]))

-----------------------------------------------------------------------------
(* Bits and division.                                                      *)

AND == At("AND") /\ Proceed(BINARY_OP(m, And(M_STACK(m, 0), m.tos)))
OR == At("OR") /\ Proceed(BINARY_OP(m, Or(M_STACK(m, 0), m.tos)))
XOR == At("XOR") /\ Proceed(BINARY_OP(m, Xor(M_STACK(m, 0), m.tos)))

\* By less than NBITS: the rest is undefined, like dividing by 0.
LSHIFT == At("LSHIFT") /\ Proceed(BINARY_OP(m, Wrap(M_STACK(m, 0) * 2 ^ m.tos)))
RSHIFT == At("RSHIFT") /\ Proceed(BINARY_OP(m, M_STACK(m, 0) \div 2 ^ m.tos))
ARSHIFT == At("ARSHIFT") /\ Proceed(BINARY_OP(m, Wrap(Signed(M_STACK(m, 0)) \div 2 ^ m.tos)))
DIVIDE == At("DIVIDE") /\ Proceed(BINARY_OP(m, Wrap(Quotient(Signed(M_STACK(m, 0)), Signed(m.tos)))))

-----------------------------------------------------------------------------
(* Bytes and texts.                                                        *)

\* The characters from an address on; none if the count is not positive.
Chars(a, n) == [i \in 1 .. Signed(n) |-> m.mem[a + i - 1]]

CFETCH == At("CFETCH") /\ Proceed([m EXCEPT !.tos = m.mem[@] % 256])
CSTORE == At("CSTORE") /\ Proceed(M_DROP([m EXCEPT !.mem[m.tos] = M_STACK(m, 0) % 256, !.sp = @ + 1]))

\* ( src dst n -- )
CMOVE ==
  /\ At("CMOVE")
  /\ Proceed(M_DROP([m EXCEPT !.mem = CopyUp(@, M_STACK(m, 1), M_STACK(m, 0), m.tos), !.sp = @ + 2]))
CMOVE_UP ==
  /\ At("CMOVE_UP")
  /\ Proceed(M_DROP([m EXCEPT !.mem = CopyDown(@, M_STACK(m, 1), M_STACK(m, 0), m.tos), !.sp = @ + 2]))

\* ( caddr num charval -- )
FILL ==
  /\ At("FILL")
  /\ LET dst == M_STACK(m, 1)
         filled == [a \in dst .. dst + M_STACK(m, 0) - 1 |-> m.tos % 256]
     IN Proceed(M_DROP([m EXCEPT !.mem = filled @@ @, !.sp = @ + 2]))

\* ( s1 len1 s2 len2 -- n )
COMPARE ==
  /\ At("COMPARE")
  /\ LET n == ffCompare(Chars(M_STACK(m, 2), M_STACK(m, 1)), Chars(M_STACK(m, 0), m.tos))
     IN Proceed([m EXCEPT !.tos = Wrap(n), !.sp = @ + 3])

\* ( addr cnt char -- addr' cnt' )
LeaveOut(k) ==
  Proceed([m EXCEPT !.tos = Wrap(M_STACK(m, 0) - k), !.sp = @ + 1, !.mem[m.sp + 1] = @ + k])
SKIP == At("SKIP") /\ LeaveOut(ffSkip(Chars(M_STACK(m, 1), M_STACK(m, 0)), m.tos))
SCAN == At("SCAN") /\ LeaveOut(ffScan(Chars(M_STACK(m, 1), M_STACK(m, 0)), m.tos))

\* ( -- c-addr num ) and ( c-addr num -- )
SOURCE ==
  /\ At("SOURCE")
  /\ LET v == M_PUSH(M_PUSH(m, m.tos), m.mem[td_SourcePtr]) IN Proceed([v EXCEPT !.tos = m.mem[td_SourceNum]])
SOURCE_SET ==
  /\ At("SOURCE_SET")
  /\ Proceed(M_DROP([m EXCEPT !.mem[td_SourcePtr] = M_STACK(m, 0), !.mem[td_SourceNum] = m.tos,
                             !.sp = @ + 1]))

VAR_TO_IN == At("VAR_TO_IN") /\ Proceed(PUSH_TOS(m, td_IN))
VAR_BASE == At("VAR_BASE") /\ Proceed(PUSH_TOS(m, gVarBase))
VAR_RETURN_CODE == At("VAR_RETURN_CODE") /\ Proceed(PUSH_TOS(m, gVarReturnCode))
VAR_BYE_CODE == At("VAR_BYE_CODE") /\ Proceed(PUSH_TOS(m, gVarByeCode))

\* ( char -- c-addr ): the count and the characters go to gScratch.
WORD ==
  /\ At("WORD")
  /\ LET in == m.mem[td_IN]
         w == Word(Chars(m.mem[td_SourcePtr] + in, Wrap(m.mem[td_SourceNum] - in)), m.tos)
         stored == [a \in gScratch .. gScratch + Len(w.text) |->
                      IF a = gScratch THEN Len(w.text) ELSE w.text[a - gScratch]]
     IN Proceed([m EXCEPT !.tos = gScratch, !.mem = (td_IN :> Wrap(in + w.in)) @@ stored @@ @])

\* ( addr -- 0 | n 1 )
NUMBERQ_P ==
  /\ At("NUMBERQ_P")
  /\ LET s == Chars(m.tos + 1, m.mem[m.tos])
         r == ffNumberQ(s, m.mem[gVarBase])
     IN Proceed(IF r.ok THEN [M_PUSH(m, r.num) EXCEPT !.tos = 1] ELSE [m EXCEPT !.tos = 0])

-----------------------------------------------------------------------------
(* The terminal.                                                           *)

\* ioEmit for each character: td_OUT is the column.
Emit(v, text) == [v EXCEPT !.text = text, !.mem[td_OUT] = Wrap(Column(@, text))]

DOT ==
  /\ At("DOT")
  /\ Proceed(M_DROP(Emit(m, ConvertNumberToText(m.tos, m.mem[gVarBase], TRUE, 1) \o <<BLANK>>)))
EMIT_P == At("EMIT_P") /\ Proceed(M_DROP(Emit(m, <<m.tos % 256>>)))
CRLF == At("CR") /\ Proceed(Emit(m, <<LF>>))
FLUSHEMIT == At("FLUSHEMIT") /\ Proceed(m)
VAR_OUT == At("VAR_OUT") /\ Proceed(PUSH_TOS(m, td_OUT))

\* ( c-addr n -- )
TYPE == At("TYPE") /\ Proceed(M_DROP([Emit(m, Chars(M_STACK(m, 0), m.tos)) EXCEPT !.sp = @ + 1]))

\* getchar answers EOF, -1, when nothing more is typed.
ASCII_EOT == 4
KEY ==
  /\ At("KEY")
  /\ LET c == IF m.input = <<>> THEN Minus(1) ELSE Head(m.input)
         v == [PUSH_TOS(m, c) EXCEPT !.input = IF @ = <<>> THEN @ ELSE Tail(@)]
     IN Proceed(IF c = ASCII_EOT THEN M_THROW(v, THROW_BYE) ELSE v)

\* ( c-addr +n1 -- +n2 ): a line that leaves room is to be ended with 0.  But
\* p[len] is meant from the start of the buffer, and p has moved with the line:
\* the 0 goes 2 * len behind the start, whether or not that is in the buffer.
ACCEPT_P ==
  /\ At("ACCEPT_P")
  /\ LET a == M_STACK(m, 0)
         got == ioAccept(m.input, Signed(m.tos))
         len == got.len
         stored == [i \in a .. a + Len(got.stored) - 1 |-> got.stored[i - a + 1]]
         end == IF len < Signed(m.tos) THEN a + 2 * len :> 0 ELSE <<>>
         out == td_OUT :> Wrap(m.mem[td_OUT] + 3 * got.erased)
     IN Proceed([m EXCEPT !.tos = len, !.sp = @ + 1, !.mem = end @@ stored @@ out @@ @,
                          !.input = got.rest])

-----------------------------------------------------------------------------
(* Files.  A word on a stream that is not open is undefined.               *)

\* The name is copied to gScratch and ends with 0.
IsName(n) == Signed(n) < TIB_SIZE - 2
CopyName(v, a, n) ==
  [v EXCEPT !.mem = [i \in gScratch .. gScratch + n |-> IF i < gScratch + n THEN @[a + i - gScratch] ELSE 0] @@ @]
\* A name that ends with 0.
CString(a) == Chars(a, CHOOSE n \in 0 .. W : m.mem[a + n] = 0 /\ \A k \in 0 .. n - 1 : m.mem[a + k] # 0)

\* ( c-addr u fam -- fid ior )
OpenNamed(famText) ==
  LET a == M_STACK(m, 1)
      n == M_STACK(m, 0)
      Named(o) == CopyName(Replace(3, <<o.r, IF o.r = NULL THEN Minus(1) ELSE 0>>), a, n)
  IN \/ IsName(n) /\ \E o \in fopen(m.fs, Chars(a, n), famText) : Proceed([Named(o) EXCEPT !.fs = o.fs])
     \/ ~IsName(n) /\ Proceed(Replace(3, <<NULL, Minus(2)>>))
FILE_CREATE == At("FILE_CREATE") /\ OpenNamed(pfSelectFileModeCreate(m.tos))
FILE_OPEN == At("FILE_OPEN") /\ OpenNamed(pfSelectFileModeOpen(m.tos))

\* ( c-addr u -- ior )
FILE_DELETE ==
  /\ At("FILE_DELETE")
  /\ LET a == M_STACK(m, 0)
     IN \/ /\ IsName(m.tos)
           /\ \E o \in remove(m.fs, Chars(a, m.tos)) :
                Proceed([CopyName(Replace(2, <<o.r>>), a, m.tos) EXCEPT !.fs = o.fs])
        \/ ~IsName(m.tos) /\ Proceed(Replace(2, <<Minus(2)>>))

\* ( oldName newName -- ior ), of C strings.
FILE_RENAME ==
  /\ At("FILE_RENAME")
  /\ \E o \in rename(m.fs, CString(M_STACK(m, 0)), CString(m.tos)) :
       Proceed([Replace(2, <<o.r>>) EXCEPT !.fs = o.fs])

\* The word is on an open stream.
OnStream(name) == At(name) /\ m.tos \in DOMAIN m.fs.open
\* It takes n cells, leaves those of r, and the files are fs.
Answered(n, r, fs) == Proceed([Replace(n, r) EXCEPT !.fs = fs])

\* ( fid -- ior )
FILE_CLOSE == OnStream("FILE_CLOSE") /\ \E o \in fclose(m.fs, m.tos) : Answered(1, <<o.r>>, o.fs)

THROW_FLUSH_FILE == Minus(68)
FILE_FLUSH ==
  /\ OnStream("FILE_FLUSH")
  /\ \E o \in fflush(m.fs, m.tos) : Answered(1, <<IF o.r = 0 THEN 0 ELSE THROW_FLUSH_FILE>>, o.fs)

\* ( addr len fid -- u2 ior )
FILE_READ ==
  /\ OnStream("FILE_READ")
  /\ \E o \in fread(m.fs, m.tos, M_STACK(m, 0)) :
       LET a == M_STACK(m, 1)
           bytes == [i \in a .. a + Len(o.r) - 1 |-> o.r[i - a + 1]]
           v == Replace(3, <<Len(o.r), 0>>)
       IN Proceed([v EXCEPT !.mem = bytes @@ @, !.fs = o.fs])

\* ( addr len fid -- ior )
FILE_WRITE ==
  /\ OnStream("FILE_WRITE")
  /\ LET len == M_STACK(m, 0)
         bytes == [i \in 1 .. len |-> m.mem[M_STACK(m, 1) + i - 1] % 256]
     IN \E o \in fwrite(m.fs, m.tos, bytes) : Answered(3, <<IF o.r # len THEN Minus(3) ELSE 0>>, o.fs)

\* ( fid -- ud ior ): -4 if r is negative.
AnswerOffset(o) == Answered(1, IF Negative(o.r) THEN <<0, 0, Minus(4)>> ELSE <<o.r, 0, 0>>, o.fs)
FILE_SIZE == OnStream("FILE_SIZE") /\ \E o \in FileSize(m.fs, m.tos) : AnswerOffset(o)
FILE_POSITION == OnStream("FILE_POSITION") /\ \E o \in ftell(m.fs, m.tos) : AnswerOffset(o)

\* ( ud fid -- ior )
FILE_REPOSITION ==
  /\ OnStream("FILE_REPOSITION")
  /\ \/ M_STACK(m, 0) # 0 /\ Answered(3, <<Minus(3)>>, m.fs)
     \/ /\ M_STACK(m, 0) = 0
        /\ \E o \in fseek(m.fs, m.tos, M_STACK(m, 1)) : Answered(3, <<o.r>>, o.fs)

\* UdIsUint64 of a cell with 64 bits.
FILE_RESIZE ==
  /\ OnStream("FILE_RESIZE")
  /\ \/ M_STACK(m, 0) # 0 /\ Answered(3, <<THROW_RESIZE_FILE>>, m.fs)
     \/ /\ M_STACK(m, 0) = 0
        /\ \E o \in sdResizeFile(m.fs, m.tos, M_STACK(m, 1)) : Answered(3, <<o.r>>, o.fs)

FILE_RO == At("FILE_RO") /\ Proceed(PUSH_TOS(m, PF_FAM_READ_ONLY))
FILE_RW == At("FILE_RW") /\ Proceed(PUSH_TOS(m, PF_FAM_READ_WRITE))
FILE_WO == At("FILE_WO") /\ Proceed(PUSH_TOS(m, PF_FAM_WRITE_ONLY))
\* TOS | PF_FAM_BINARY_FLAG
FILE_BIN == At("FILE_BIN") /\ Proceed([m EXCEPT !.tos = Or(@, PF_FAM_BINARY_FLAG)])

-----------------------------------------------------------------------------
Control ==
  \/ Nest \/ EXIT \/ EXECUTE \/ CATCH \/ Uncatch \/ THROW \/ ERRORQ_P \/ QUIT_P \/ BYE
  \/ HERE \/ LITERAL_P \/ ALITERAL_P \/ TwoLITERAL_P \/ CREATE_P \/ BODY_OFFSET \/ DEFER_P \/ NOOP
  \/ BRANCH \/ ZERO_BRANCH \/ DO_P \/ QDO_P \/ LOOP_P \/ PLUSLOOP_P \/ LEAVE_P \/ I \/ J

Locals ==
  \/ LOCAL_ENTRY \/ LOCAL_EXIT \/ LOCAL_FETCH \/ LOCAL_STORE \/ LOCAL_PLUSSTORE
  \/ LOCAL_FETCH_N \/ LOCAL_STORE_N

Stacks ==
  \/ TO_R \/ R_FROM \/ R_FETCH \/ R_DROP \/ TwoTO_R \/ TwoR_FROM \/ TwoR_FETCH
  \/ RP_FETCH \/ RP_STORE \/ SP_FETCH \/ SP_STORE
  \/ DUP \/ DROP \/ QDUP \/ OVER \/ SWAP \/ PICKth \/ DEPTH \/ ROT \/ ROLL
  \/ TwoDUP \/ TwoOVER \/ TwoSWAP

Arithmetic ==
  \/ OneMinus \/ OnePlus \/ TwoMinus \/ TwoPlus \/ MINUS \/ PLUS \/ TIMES \/ MAX \/ MIN
  \/ Compare \/ CompareZero
  \/ D_PLUS \/ D_MINUS \/ D_UMTIMES \/ D_MTIMES \/ D_UMSMOD \/ D_MUSMOD
  \/ FETCH \/ STORE \/ PLUS_STORE
  \/ AND \/ OR \/ XOR \/ LSHIFT \/ RSHIFT \/ ARSHIFT \/ DIVIDE

Texts ==
  \/ CFETCH \/ CSTORE \/ CMOVE \/ CMOVE_UP \/ FILL \/ COMPARE \/ SKIP \/ SCAN
  \/ SOURCE \/ SOURCE_SET \/ VAR_TO_IN \/ VAR_BASE \/ VAR_RETURN_CODE \/ VAR_BYE_CODE
  \/ WORD \/ NUMBERQ_P

Terminal == DOT \/ EMIT_P \/ CRLF \/ FLUSHEMIT \/ VAR_OUT \/ TYPE \/ KEY \/ ACCEPT_P

FileWords ==
  \/ FILE_CREATE \/ FILE_OPEN \/ FILE_DELETE \/ FILE_RENAME \/ FILE_CLOSE \/ FILE_FLUSH
  \/ FILE_READ \/ FILE_WRITE \/ FILE_SIZE \/ FILE_POSITION \/ FILE_REPOSITION \/ FILE_RESIZE
  \/ FILE_RO \/ FILE_RW \/ FILE_WO \/ FILE_BIN

Step == Control \/ Locals \/ Stacks \/ Arithmetic \/ Texts \/ Terminal \/ FileWords
=============================================================================
