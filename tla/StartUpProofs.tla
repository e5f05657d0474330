---------------------------- MODULE StartUpProofs ----------------------------
(***************************************************************************)
(* Proofs about StartUp, Inner and Cells.                                  *)
(***************************************************************************)
EXTENDS StartUp, SequenceTheorems, WellFoundedInduction, TLAPS

-----------------------------------------------------------------------------
(* What no word changes: the depth of the stacks at the start of pfCatch,  *)
(* and, but for a throw, the exception.                                    *)

Whole(v) == Registers \cup {"tdStack", "tdReturn", "mem"} \subseteq DOMAIN v

Keeps(w, v) == Whole(v) => Whole(w) /\ w.irp = v.irp /\ w.isp = v.isp /\ w.err = v.err

LEMMA MacrosKeep ==
  /\ \A v, x : Keeps(M_PUSH(v, x), v)
  /\ \A v : Keeps(M_DROP(v), v)
  /\ \A v, x : Keeps(PUSH_TOS(v, x), v)
  /\ \A v, x : Keeps(M_R_PUSH(v, x), v)
  /\ \A v, n : Keeps(M_R_DROP(v, n), v)
  /\ \A v : Keeps(M_BRANCH(v), v)
  /\ \A v : Keeps(SkipOffset(v), v)
  /\ \A v : Keeps(SAVE_REGISTERS(v), v)
  /\ \A v : Keeps(LOAD_REGISTERS(v), v)
  /\ \A v, xt : Keeps(Owe(v, xt), v)
  /\ \A v : Keeps(Paid(v), v)
  /\ \A v : Keeps(EndOfLoop(v), v)
<1> USE DEF Keeps, Whole, Registers
<1>1. \A v, x : Keeps(M_PUSH(v, x), v) BY DEF M_PUSH
<1>2. \A v : Keeps(M_DROP(v), v) BY DEF M_DROP
<1>3. \A v, x : Keeps(PUSH_TOS(v, x), v) BY DEF PUSH_TOS, M_PUSH
<1>4. \A v, x : Keeps(M_R_PUSH(v, x), v) BY DEF M_R_PUSH
<1>5. \A v, n : Keeps(M_R_DROP(v, n), v) BY DEF M_R_DROP
<1>6. \A v : Keeps(M_BRANCH(v), v) BY DEF M_BRANCH
<1>7. \A v : Keeps(SkipOffset(v), v) BY DEF SkipOffset
<1>8. \A v : Keeps(SAVE_REGISTERS(v), v) BY DEF SAVE_REGISTERS, M_PUSH
<1>9. \A v : Keeps(LOAD_REGISTERS(v), v) BY DEF LOAD_REGISTERS
<1>10. \A v, xt : Keeps(Owe(v, xt), v) BY DEF Owe
<1>11. \A v : Keeps(Paid(v), v) BY DEF Paid
<1>12. \A v : Keeps(EndOfLoop(v), v) BY DEF EndOfLoop
<1> HIDE DEF Keeps, Whole, Registers
<1> QED BY <1>1, <1>2, <1>3, <1>4, <1>5, <1>6, <1>7, <1>8, <1>9, <1>10, <1>11, <1>12

LEMMA WordsKeep ==
  /\ \A v : Keeps(EnterLoop(v), v)
  /\ \A v, index : Keeps(NextRound(v, index), v)
  /\ \A v : Keeps(ExitLoop(v), v)
  /\ \A v, x : Keeps(BINARY_OP(v, x), v)
  /\ \A n, r : Keeps(Replace(n, r), m)
  /\ \A v, text : Keeps(Emit(v, text), v)
  /\ \A v, a, n : Keeps(CopyName(v, a, n), v)
<1>1. \A v : Keeps(EnterLoop(v), v) BY MacrosKeep DEF EnterLoop, Keeps
<1>2. ASSUME NEW v, NEW index PROVE Keeps(NextRound(v, index), v)
  <2>1. Keeps([v EXCEPT !.mem[v.rp + 1] = index], v) BY DEF Keeps, Whole, Registers
  <2> QED BY <2>1, MacrosKeep DEF NextRound, Keeps
<1>3. \A v : Keeps(ExitLoop(v), v) BY MacrosKeep DEF ExitLoop, Keeps
<1>4. \A v, x : Keeps(BINARY_OP(v, x), v) BY DEF BINARY_OP, Keeps, Whole, Registers
<1>5. \A n, r : Keeps(Replace(n, r), m) BY DEF Replace, Keeps, Whole, Registers
<1>6. \A v, text : Keeps(Emit(v, text), v) BY DEF Emit, Keeps, Whole, Registers
<1>7. \A v, a, n : Keeps(CopyName(v, a, n), v) BY DEF CopyName, Keeps, Whole, Registers
<1> QED BY <1>1, <1>2, <1>3, <1>4, <1>5, <1>6, <1>7

LEMMA LiteralsKeep ==
  HERE \/ LITERAL_P \/ ALITERAL_P \/ TwoLITERAL_P \/ CREATE_P \/ BODY_OFFSET \/ DEFER_P \/ NOOP => Keeps(m', m)
<1>1. HERE \/ LITERAL_P \/ ALITERAL_P \/ CREATE_P \/ BODY_OFFSET \/ DEFER_P \/ NOOP => Keeps(m', m)
  BY MacrosKeep DEF HERE, LITERAL_P, ALITERAL_P, CREATE_P, BODY_OFFSET, DEFER_P, NOOP, Proceed, Keeps
<1>2. TwoLITERAL_P => Keeps(m', m)
  BY MacrosKeep DEF TwoLITERAL_P, Proceed, Keeps, Whole, Registers
<1> QED BY <1>1, <1>2

LEMMA BranchesKeep ==
  BRANCH \/ ZERO_BRANCH \/ DO_P \/ QDO_P \/ LOOP_P \/ PLUSLOOP_P \/ LEAVE_P \/ I \/ J => Keeps(m', m)
<1>1. BRANCH \/ ZERO_BRANCH \/ LEAVE_P \/ I \/ J => Keeps(m', m)
  BY MacrosKeep DEF BRANCH, ZERO_BRANCH, LEAVE_P, I, J, Proceed, Keeps
<1>2. DO_P => Keeps(m', m)
  BY MacrosKeep, WordsKeep DEF DO_P, Proceed, Keeps, Whole, Registers
<1>3. QDO_P => Keeps(m', m)
  BY MacrosKeep, WordsKeep DEF QDO_P, Proceed, Keeps, Whole, Registers
<1>4. LOOP_P \/ PLUSLOOP_P => Keeps(m', m)
  BY MacrosKeep, WordsKeep DEF LOOP_P, PLUSLOOP_P, Proceed, Keeps
<1> QED BY <1>1, <1>2, <1>3, <1>4

LEMMA CallsKeep == Nest \/ EXIT \/ EXECUTE => Keeps(m', m)
<1>1. Nest => Keeps(m', m) BY MacrosKeep DEF Nest, Keeps, Whole, Registers
<1>2. EXIT => Keeps(m', m) BY MacrosKeep DEF EXIT, Proceed, Keeps, Whole, Registers
<1>3. ASSUME EXECUTE PROVE Keeps(m', m)
  <2> DEFINE v == M_R_PUSH(Owe(m, NULL), m.ip)
             fake == [v EXCEPT !.mem[FakeSecondary(Level)] = m.tos, !.ip = FakeSecondary(Level)]
             direct == [v EXCEPT !.ip = m.tos]
  <2>1. Keeps(v, m) BY MacrosKeep DEF Keeps
  <2>2. Keeps(fake, v) /\ Keeps(direct, v) BY DEF Keeps, Whole, Registers
  <2>3. m' = EndOfLoop(M_DROP(fake)) \/ m' = EndOfLoop(M_DROP(direct)) BY <1>3 DEF EXECUTE, Proceed
  <2> HIDE DEF v, fake, direct
  <2> QED BY <2>1, <2>2, <2>3, MacrosKeep DEF Keeps
<1> QED BY <1>1, <1>2, <1>3

LEMMA LocalsKeep == Locals => Keeps(m', m)
<1>1. ASSUME LOCAL_ENTRY PROVE Keeps(m', m)
  <2> DEFINE v == [M_R_PUSH(m, m.lp) EXCEPT
                        !.lp = M_R_PUSH(m, m.lp).rp, !.rp = M_R_PUSH(m, m.lp).rp - m.tos, !.sp = @ + m.tos,
                        !.mem = [a \in M_R_PUSH(m, m.lp).rp - m.tos .. M_R_PUSH(m, m.lp).rp - 1 |->
                                   M_STACK(m, a - (M_R_PUSH(m, m.lp).rp - m.tos))] @@ @]
  <2>1. Keeps(v, m) BY MacrosKeep DEF Keeps, Whole, Registers
  <2>2. m' = EndOfLoop(M_DROP(v)) BY <1>1 DEF LOCAL_ENTRY, Proceed
  <2> HIDE DEF v
  <2> QED BY <2>1, <2>2, MacrosKeep DEF Keeps
<1>2. ASSUME LOCAL_EXIT PROVE Keeps(m', m)
  <2> DEFINE v == [m EXCEPT !.rp = m.lp + 1, !.lp = m.mem[m.lp]]
  <2>1. Keeps(v, m) BY DEF Keeps, Whole, Registers
  <2>2. m' = EndOfLoop(v) BY <1>2 DEF LOCAL_EXIT, Proceed
  <2> HIDE DEF v
  <2> QED BY <2>1, <2>2, MacrosKeep DEF Keeps
<1>3. ASSUME LOCAL_STORE PROVE Keeps(m', m)
  <2> DEFINE v == [m EXCEPT !.mem[m.lp - m.tos] = M_STACK(m, 0), !.sp = @ + 1]
  <2>1. Keeps(v, m) BY DEF Keeps, Whole, Registers
  <2>2. m' = EndOfLoop(M_DROP(v)) BY <1>3 DEF LOCAL_STORE, Proceed
  <2> HIDE DEF v
  <2> QED BY <2>1, <2>2, MacrosKeep DEF Keeps
<1>4. ASSUME LOCAL_PLUSSTORE PROVE Keeps(m', m)
  <2> DEFINE v == [m EXCEPT !.mem[m.lp - m.tos] = Wrap(@ + M_STACK(m, 0)), !.sp = @ + 1]
  <2>1. Keeps(v, m) BY DEF Keeps, Whole, Registers
  <2>2. m' = EndOfLoop(M_DROP(v)) BY <1>4 DEF LOCAL_PLUSSTORE, Proceed
  <2> HIDE DEF v
  <2> QED BY <2>1, <2>2, MacrosKeep DEF Keeps
<1>5. LOCAL_FETCH_N => Keeps(m', m)
  BY MacrosKeep DEF LOCAL_FETCH_N, Proceed, Keeps
<1>6. LOCAL_STORE_N => Keeps(m', m)
  BY MacrosKeep DEF LOCAL_STORE_N, Proceed, Keeps, Whole, Registers
<1>7. ASSUME LOCAL_FETCH PROVE Keeps(m', m)
  <2> DEFINE v == [m EXCEPT !.tos = m.mem[m.lp - @]]
  <2>1. Keeps(v, m) BY DEF Keeps, Whole, Registers
  <2>2. m' = EndOfLoop(v) BY <1>7 DEF LOCAL_FETCH, Proceed
  <2> HIDE DEF v
  <2> QED BY <2>1, <2>2, MacrosKeep DEF Keeps
<1> QED BY <1>1, <1>2, <1>3, <1>4, <1>5, <1>6, <1>7 DEF Locals

LEMMA StacksKeep == Stacks => Keeps(m', m)
<1>1. TO_R \/ R_FROM \/ R_FETCH \/ R_DROP \/ TwoR_FROM \/ RP_FETCH => Keeps(m', m)
  BY MacrosKeep DEF TO_R, R_FROM, R_FETCH, R_DROP, TwoR_FROM, RP_FETCH, Proceed, Keeps
<1>2. TwoTO_R => Keeps(m', m) BY MacrosKeep DEF TwoTO_R, Proceed, Keeps, Whole, Registers
<1>3. TwoR_FETCH => Keeps(m', m) BY MacrosKeep DEF TwoR_FETCH, Proceed, Keeps, Whole, Registers
<1>4. RP_STORE \/ SP_STORE => Keeps(m', m) BY MacrosKeep DEF RP_STORE, SP_STORE, Proceed, Keeps, Whole, Registers
<1>5. SP_FETCH \/ DEPTH => Keeps(m', m) BY MacrosKeep DEF SP_FETCH, DEPTH, Proceed, Keeps, Whole, Registers
<1>6. DUP \/ DROP \/ QDUP \/ OVER \/ TwoDUP => Keeps(m', m)
  BY MacrosKeep DEF DUP, DROP, QDUP, OVER, TwoDUP, Proceed, Keeps
<1>7. ASSUME SWAP PROVE Keeps(m', m)
  <2> DEFINE v == [m EXCEPT !.tos = M_STACK(m, 0), !.mem[m.sp] = m.tos]
  <2>1. Keeps(v, m) BY DEF Keeps, Whole, Registers
  <2>2. m' = EndOfLoop(v) BY <1>7 DEF SWAP, Proceed
  <2> HIDE DEF v
  <2> QED BY <2>1, <2>2, MacrosKeep DEF Keeps
<1>8. ASSUME ROT PROVE Keeps(m', m)
  <2> DEFINE v == [m EXCEPT !.tos = M_STACK(m, 1), !.mem[m.sp + 1] = M_STACK(m, 0), !.mem[m.sp] = m.tos]
  <2>1. Keeps(v, m) BY DEF Keeps, Whole, Registers
  <2>2. m' = EndOfLoop(v) BY <1>8 DEF ROT, Proceed
  <2> HIDE DEF v
  <2> QED BY <2>1, <2>2, MacrosKeep DEF Keeps
<1>9. ASSUME ROLL PROVE Keeps(m', m)
  <2> DEFINE v == [m EXCEPT !.tos = M_STACK(m, @), !.sp = @ + 1,
                               !.mem = [a \in m.sp + 1 .. m.sp + m.tos |-> m.mem[a - 1]] @@ @]
  <2>1. Keeps(v, m) BY DEF Keeps, Whole, Registers
  <2>2. m' = EndOfLoop(v) BY <1>9 DEF ROLL, Proceed
  <2> HIDE DEF v
  <2> QED BY <2>1, <2>2, MacrosKeep DEF Keeps
<1>10. TwoOVER => Keeps(m', m) BY MacrosKeep DEF TwoOVER, Proceed, Keeps, Whole, Registers
<1>11. ASSUME TwoSWAP PROVE Keeps(m', m)
  <2> DEFINE v == [m EXCEPT !.tos = M_STACK(m, 1), !.mem[m.sp] = M_STACK(m, 2),
                       !.mem[m.sp + 1] = m.tos, !.mem[m.sp + 2] = M_STACK(m, 0)]
  <2>1. Keeps(v, m) BY DEF Keeps, Whole, Registers
  <2>2. m' = EndOfLoop(v) BY <1>11 DEF TwoSWAP, Proceed
  <2> HIDE DEF v
  <2> QED BY <2>1, <2>2, MacrosKeep DEF Keeps
<1>12. ASSUME PICKth PROVE Keeps(m', m)
  <2> DEFINE v == [m EXCEPT !.tos = M_STACK(m, @)]
  <2>1. Keeps(v, m) BY DEF Keeps, Whole, Registers
  <2>2. m' = EndOfLoop(v) BY <1>12 DEF PICKth, Proceed
  <2> HIDE DEF v
  <2> QED BY <2>1, <2>2, MacrosKeep DEF Keeps
<1> QED BY <1>1, <1>2, <1>3, <1>4, <1>5, <1>6, <1>7, <1>8, <1>9, <1>10, <1>11, <1>12 DEF Stacks

LEMMA ArithmeticKeeps == Arithmetic => Keeps(m', m)
<1>1. OneMinus \/ OnePlus \/ TwoMinus \/ TwoPlus => Keeps(m', m)
  BY MacrosKeep DEF OneMinus, OnePlus, TwoMinus, TwoPlus, Proceed, Keeps, Whole, Registers
<1>2. MINUS \/ PLUS \/ TIMES \/ MAX \/ MIN => Keeps(m', m)
  BY MacrosKeep, WordsKeep DEF MINUS, PLUS, TIMES, MAX, MIN, Proceed, Keeps
<1>3. Compare => Keeps(m', m)
  BY MacrosKeep, WordsKeep DEF Compare, Proceed, Keeps
<1>4. CompareZero => Keeps(m', m)
  BY MacrosKeep DEF CompareZero, Proceed, Keeps, Whole, Registers
<1>5. D_PLUS \/ D_MINUS \/ D_UMTIMES \/ D_MTIMES \/ D_UMSMOD \/ D_MUSMOD => Keeps(m', m)
  BY MacrosKeep, WordsKeep DEF D_PLUS, D_MINUS, D_UMTIMES, D_MTIMES, D_UMSMOD, D_MUSMOD, Proceed, Keeps
<1>6. AND \/ OR \/ XOR \/ LSHIFT \/ RSHIFT \/ ARSHIFT \/ DIVIDE => Keeps(m', m)
  BY MacrosKeep, WordsKeep DEF AND, OR, XOR, LSHIFT, RSHIFT, ARSHIFT, DIVIDE, Proceed, Keeps
<1>7. ASSUME FETCH PROVE Keeps(m', m)
  <2> DEFINE v == [m EXCEPT !.tos = m.mem[@]]
  <2>1. Keeps(v, m) BY DEF Keeps, Whole, Registers
  <2>2. m' = EndOfLoop(v) BY <1>7 DEF FETCH, Proceed
  <2> HIDE DEF v
  <2> QED BY <2>1, <2>2, MacrosKeep DEF Keeps
<1>8. ASSUME STORE PROVE Keeps(m', m)
  <2> DEFINE v == [m EXCEPT !.mem[m.tos] = M_STACK(m, 0), !.sp = @ + 1]
  <2>1. Keeps(v, m) BY DEF Keeps, Whole, Registers
  <2>2. m' = EndOfLoop(M_DROP(v)) BY <1>8 DEF STORE, Proceed
  <2> HIDE DEF v
  <2> QED BY <2>1, <2>2, MacrosKeep DEF Keeps
<1>9. ASSUME PLUS_STORE PROVE Keeps(m', m)
  <2> DEFINE v == [m EXCEPT !.mem[m.tos] = Wrap(@ + M_STACK(m, 0)), !.sp = @ + 1]
  <2>1. Keeps(v, m) BY DEF Keeps, Whole, Registers
  <2>2. m' = EndOfLoop(M_DROP(v)) BY <1>9 DEF PLUS_STORE, Proceed
  <2> HIDE DEF v
  <2> QED BY <2>1, <2>2, MacrosKeep DEF Keeps
<1> QED BY <1>1, <1>2, <1>3, <1>4, <1>5, <1>6, <1>7, <1>8, <1>9 DEF Arithmetic

LEMMA TextsKeep == Texts => Keeps(m', m)
<1>1. ASSUME CFETCH PROVE Keeps(m', m)
  <2> DEFINE v == [m EXCEPT !.tos = m.mem[@] % 256]
  <2>1. Keeps(v, m) BY DEF Keeps, Whole, Registers
  <2>2. m' = EndOfLoop(v) BY <1>1 DEF CFETCH, Proceed
  <2> HIDE DEF v
  <2> QED BY <2>1, <2>2, MacrosKeep DEF Keeps
<1>2. ASSUME CSTORE PROVE Keeps(m', m)
  <2> DEFINE v == [m EXCEPT !.mem[m.tos] = M_STACK(m, 0) % 256, !.sp = @ + 1]
  <2>1. Keeps(v, m) BY DEF Keeps, Whole, Registers
  <2>2. m' = EndOfLoop(M_DROP(v)) BY <1>2 DEF CSTORE, Proceed
  <2> HIDE DEF v
  <2> QED BY <2>1, <2>2, MacrosKeep DEF Keeps
<1>3. ASSUME CMOVE PROVE Keeps(m', m)
  <2> DEFINE v == [m EXCEPT !.mem = CopyUp(@, M_STACK(m, 1), M_STACK(m, 0), m.tos), !.sp = @ + 2]
  <2>1. Keeps(v, m) BY DEF Keeps, Whole, Registers
  <2>2. m' = EndOfLoop(M_DROP(v)) BY <1>3 DEF CMOVE, Proceed
  <2> HIDE DEF v
  <2> QED BY <2>1, <2>2, MacrosKeep DEF Keeps
<1>4. ASSUME CMOVE_UP PROVE Keeps(m', m)
  <2> DEFINE v == [m EXCEPT !.mem = CopyDown(@, M_STACK(m, 1), M_STACK(m, 0), m.tos), !.sp = @ + 2]
  <2>1. Keeps(v, m) BY DEF Keeps, Whole, Registers
  <2>2. m' = EndOfLoop(M_DROP(v)) BY <1>4 DEF CMOVE_UP, Proceed
  <2> HIDE DEF v
  <2> QED BY <2>1, <2>2, MacrosKeep DEF Keeps
<1>5. ASSUME FILL PROVE Keeps(m', m)
  <2> DEFINE v == [m EXCEPT !.sp = @ + 2,
                        !.mem = [a \in M_STACK(m, 1) .. M_STACK(m, 1) + M_STACK(m, 0) - 1 |-> m.tos % 256] @@ @]
  <2>1. Keeps(v, m) BY DEF Keeps, Whole, Registers
  <2>2. m' = EndOfLoop(M_DROP(v)) BY <1>5 DEF FILL, Proceed
  <2> HIDE DEF v
  <2> QED BY <2>1, <2>2, MacrosKeep DEF Keeps
<1>6. ASSUME COMPARE PROVE Keeps(m', m)
  <2>1. \A n : Keeps([m EXCEPT !.tos = Wrap(n), !.sp = @ + 3], m) BY DEF Keeps, Whole, Registers
  <2>2. PICK n : m' = EndOfLoop([m EXCEPT !.tos = Wrap(n), !.sp = @ + 3]) BY <1>6 DEF COMPARE, Proceed
  <2> DEFINE v == [m EXCEPT !.tos = Wrap(n), !.sp = @ + 3]
  <2>3. Keeps(v, m) /\ m' = EndOfLoop(v) BY <2>1, <2>2
  <2> HIDE DEF v
  <2> QED BY <2>3, MacrosKeep DEF Keeps
<1>7. ASSUME NEW k, LeaveOut(k) PROVE Keeps(m', m)
  <2> DEFINE v == [m EXCEPT !.tos = Wrap(M_STACK(m, 0) - k), !.sp = @ + 1, !.mem[m.sp + 1] = @ + k]
  <2>1. Keeps(v, m) BY DEF Keeps, Whole, Registers
  <2>2. m' = EndOfLoop(v) BY <1>7 DEF LeaveOut, Proceed
  <2> HIDE DEF v
  <2> QED BY <2>1, <2>2, MacrosKeep DEF Keeps
<1>8. SKIP \/ SCAN => Keeps(m', m) BY <1>7 DEF SKIP, SCAN
<1>9. SOURCE => Keeps(m', m)
  BY MacrosKeep DEF SOURCE, Proceed, Keeps, Whole, Registers
<1>10. ASSUME SOURCE_SET PROVE Keeps(m', m)
  <2> DEFINE v == [m EXCEPT !.mem[td_SourcePtr] = M_STACK(m, 0), !.mem[td_SourceNum] = m.tos, !.sp = @ + 1]
  <2>1. Keeps(v, m) BY DEF Keeps, Whole, Registers
  <2>2. m' = EndOfLoop(M_DROP(v)) BY <1>10 DEF SOURCE_SET, Proceed
  <2> HIDE DEF v
  <2> QED BY <2>1, <2>2, MacrosKeep DEF Keeps
<1>11. VAR_TO_IN \/ VAR_BASE \/ VAR_RETURN_CODE \/ VAR_BYE_CODE => Keeps(m', m)
  BY MacrosKeep DEF VAR_TO_IN, VAR_BASE, VAR_RETURN_CODE, VAR_BYE_CODE, Proceed, Keeps
<1>12. ASSUME WORD PROVE Keeps(m', m)
  <2>1. \A mem : Keeps([m EXCEPT !.tos = gScratch, !.mem = mem], m) BY DEF Keeps, Whole, Registers
  <2>2. PICK mem : m' = EndOfLoop([m EXCEPT !.tos = gScratch, !.mem = mem]) BY <1>12 DEF WORD, Proceed
  <2> DEFINE v == [m EXCEPT !.tos = gScratch, !.mem = mem]
  <2>3. Keeps(v, m) /\ m' = EndOfLoop(v) BY <2>1, <2>2
  <2> HIDE DEF v
  <2> QED BY <2>3, MacrosKeep DEF Keeps
<1>13. NUMBERQ_P => Keeps(m', m)
  BY MacrosKeep DEF NUMBERQ_P, Proceed, Keeps, Whole, Registers
<1> QED BY <1>1, <1>2, <1>3, <1>4, <1>5, <1>6, <1>7, <1>8, <1>9, <1>10, <1>11, <1>12, <1>13 DEF Texts

LEMMA TerminalKeeps ==
  /\ DOT \/ EMIT_P \/ CRLF \/ FLUSHEMIT \/ VAR_OUT \/ TYPE \/ ACCEPT_P => Keeps(m', m)
  /\ KEY => \E v : Keeps(v, m) /\ (m' = EndOfLoop(v) \/ m' = EndOfLoop(M_THROW(v, THROW_BYE)))
<1>1. DOT \/ EMIT_P \/ CRLF \/ FLUSHEMIT \/ VAR_OUT => Keeps(m', m)
  <2>1. ASSUME NEW text PROVE Keeps(EndOfLoop(Emit(m, text)), m) /\ Keeps(EndOfLoop(M_DROP(Emit(m, text))), m)
    BY MacrosKeep, WordsKeep DEF Keeps
  <2>2. FLUSHEMIT \/ VAR_OUT => Keeps(m', m) BY MacrosKeep DEF FLUSHEMIT, VAR_OUT, Proceed, Keeps
  <2>3. DOT \/ EMIT_P \/ CRLF => Keeps(m', m) BY <2>1 DEF DOT, EMIT_P, CRLF, Proceed
  <2> QED BY <2>2, <2>3
<1>2. ASSUME TYPE PROVE Keeps(m', m)
  <2> DEFINE w == Emit(m, Chars(M_STACK(m, 0), m.tos))  v == [w EXCEPT !.sp = @ + 1]
  <2>1. Keeps(w, m) BY WordsKeep
  <2>2. m' = EndOfLoop(M_DROP(v)) BY <1>2 DEF TYPE, Proceed
  <2> HIDE DEF w
  <2>3. Keeps(v, w) BY DEF Keeps, Whole, Registers
  <2> HIDE DEF v
  <2> QED BY <2>1, <2>2, <2>3, MacrosKeep DEF Keeps
<1>3. ASSUME ACCEPT_P PROVE Keeps(m', m)
  <2>1. PICK len, mem, input : m' = EndOfLoop([m EXCEPT !.tos = len, !.sp = @ + 1, !.mem = mem, !.input = input])
    BY <1>3 DEF ACCEPT_P, Proceed
  <2> DEFINE v == [m EXCEPT !.tos = len, !.sp = @ + 1, !.mem = mem, !.input = input]
  <2>2. Keeps(v, m) BY DEF Keeps, Whole, Registers
  <2>3. m' = EndOfLoop(v) BY <2>1
  <2> HIDE DEF v
  <2> QED BY <2>2, <2>3, MacrosKeep DEF Keeps
<1>4. ASSUME KEY PROVE \E v : Keeps(v, m) /\ (m' = EndOfLoop(v) \/ m' = EndOfLoop(M_THROW(v, THROW_BYE)))
  <2> DEFINE c == IF m.input = <<>> THEN Minus(1) ELSE Head(m.input)
             w == PUSH_TOS(m, c)
             v == [w EXCEPT !.input = IF @ = <<>> THEN @ ELSE Tail(@)]
  <2>1. m' = EndOfLoop(v) \/ m' = EndOfLoop(M_THROW(v, THROW_BYE)) BY <1>4 DEF KEY, Proceed
  <2>2. Keeps(w, m) BY MacrosKeep
  <2> HIDE DEF w
  <2>3. Keeps(v, w) BY DEF Keeps, Whole, Registers
  <2> HIDE DEF v
  <2> QED BY <2>1, <2>2, <2>3 DEF Keeps
<1> QED BY <1>1, <1>2, <1>3, <1>4

LEMMA FilesKeepRegisters == FileWords => Keeps(m', m)
<1>1. ASSUME NEW v, NEW fs PROVE Keeps([v EXCEPT !.fs = fs], v) BY DEF Keeps, Whole, Registers
<1>2. ASSUME NEW n, NEW r, NEW fs, Answered(n, r, fs) PROVE Keeps(m', m)
  <2> DEFINE w == Replace(n, r)  v == [w EXCEPT !.fs = fs]
  <2>1. Keeps(w, m) BY WordsKeep
  <2>2. m' = EndOfLoop(v) BY <1>2 DEF Answered, Proceed
  <2> HIDE DEF w
  <2>3. Keeps(v, w) BY <1>1
  <2> HIDE DEF v
  <2> QED BY <2>1, <2>2, <2>3, MacrosKeep DEF Keeps
<1>3. ASSUME NEW n, NEW r, Proceed(Replace(n, r)) PROVE Keeps(m', m)
  BY <1>3, MacrosKeep, WordsKeep DEF Proceed, Keeps
<1>4. ASSUME NEW n, NEW r, NEW a, NEW k, NEW fs, Proceed([CopyName(Replace(n, r), a, k) EXCEPT !.fs = fs])
      PROVE  Keeps(m', m)
  <2> DEFINE w == CopyName(Replace(n, r), a, k)  v == [w EXCEPT !.fs = fs]
  <2>1. Keeps(w, m) BY WordsKeep DEF Keeps
  <2>2. m' = EndOfLoop(v) BY <1>4 DEF Proceed
  <2> HIDE DEF w
  <2>3. Keeps(v, w) BY <1>1
  <2> HIDE DEF v
  <2> QED BY <2>1, <2>2, <2>3, MacrosKeep DEF Keeps
<1>5. ASSUME NEW famText, OpenNamed(famText) PROVE Keeps(m', m) BY <1>3, <1>4, <1>5 DEF OpenNamed
<1>6. FILE_CREATE \/ FILE_OPEN => Keeps(m', m) BY <1>5 DEF FILE_CREATE, FILE_OPEN
<1>7. FILE_DELETE => Keeps(m', m) BY <1>3, <1>4 DEF FILE_DELETE
<1>8. FILE_RENAME => Keeps(m', m) BY <1>2 DEF FILE_RENAME, Answered
<1>9. FILE_CLOSE \/ FILE_FLUSH \/ FILE_REPOSITION \/ FILE_RESIZE => Keeps(m', m)
  BY <1>2 DEF FILE_CLOSE, FILE_FLUSH, FILE_REPOSITION, FILE_RESIZE
<1>10. FILE_WRITE => Keeps(m', m) BY <1>2 DEF FILE_WRITE
<1>11. FILE_SIZE \/ FILE_POSITION => Keeps(m', m) BY <1>2 DEF FILE_SIZE, FILE_POSITION, AnswerOffset
<1>12. ASSUME FILE_READ PROVE Keeps(m', m)
  <2>1. PICK r, mem, fs : m' = EndOfLoop([Replace(3, r) EXCEPT !.mem = mem, !.fs = fs])
    BY <1>12 DEF FILE_READ, Proceed
  <2> DEFINE w == Replace(3, r)  v == [w EXCEPT !.mem = mem, !.fs = fs]
  <2>2. Keeps(w, m) /\ m' = EndOfLoop(v) BY <2>1, WordsKeep
  <2> HIDE DEF w
  <2>3. Keeps(v, w) BY DEF Keeps, Whole, Registers
  <2> HIDE DEF v
  <2> QED BY <2>2, <2>3, MacrosKeep DEF Keeps
<1>13. FILE_RO \/ FILE_RW \/ FILE_WO => Keeps(m', m)
  BY MacrosKeep DEF FILE_RO, FILE_RW, FILE_WO, Proceed, Keeps
<1>14. ASSUME FILE_BIN PROVE Keeps(m', m)
  <2> DEFINE v == [m EXCEPT !.tos = Or(@, PF_FAM_BINARY_FLAG)]
  <2>1. Keeps(v, m) BY DEF Keeps, Whole, Registers
  <2>2. m' = EndOfLoop(v) BY <1>14 DEF FILE_BIN, Proceed
  <2> HIDE DEF v
  <2> QED BY <2>1, <2>2, MacrosKeep DEF Keeps
<1> QED
  BY <1>6, <1>7, <1>8, <1>9, <1>10, <1>11, <1>12, <1>13, <1>14 DEF FileWords

\* A word that throws.
Throws == \E v, err : Keeps(v, m) /\ m' = EndOfLoop(M_THROW(v, err))

LEMMA ThrowersKeep == THROW \/ ERRORQ_P \/ QUIT_P \/ BYE \/ KEY => Keeps(m', m) \/ Throws
<1>0. Keeps(m, m) BY DEF Keeps
<1>1. THROW => Keeps(m', m) \/ Throws
  <2>1. THROW => m' = EndOfLoop(M_DROP(m)) \/ m' = EndOfLoop(M_THROW(m, m.tos)) BY DEF THROW, Proceed
  <2>2. Keeps(EndOfLoop(M_DROP(m)), m) BY MacrosKeep DEF Keeps
  <2> QED BY <1>0, <2>1, <2>2 DEF Throws
<1>2. ERRORQ_P => Keeps(m', m) \/ Throws
  <2> DEFINE v == M_DROP(m)
  <2>1. ERRORQ_P => m' = EndOfLoop(M_DROP(v)) \/ m' = EndOfLoop(M_THROW(v, m.tos)) BY DEF ERRORQ_P, Proceed
  <2>2. Keeps(v, m) BY MacrosKeep
  <2> HIDE DEF v
  <2>3. Keeps(EndOfLoop(M_DROP(v)), m) BY <2>2, MacrosKeep DEF Keeps
  <2> QED BY <2>1, <2>2, <2>3 DEF Throws
<1>3. QUIT_P \/ BYE => Throws BY <1>0 DEF QUIT_P, BYE, Proceed, Throws
<1>4. ASSUME KEY PROVE Keeps(m', m) \/ Throws
  <2>1. PICK v : Keeps(v, m) /\ (m' = EndOfLoop(v) \/ m' = EndOfLoop(M_THROW(v, THROW_BYE)))
    BY <1>4, TerminalKeeps
  <2>2. CASE m' = EndOfLoop(v) BY <2>1, <2>2, MacrosKeep DEF Keeps
  <2>3. CASE m' = EndOfLoop(M_THROW(v, THROW_BYE)) BY <2>1, <2>3 DEF Throws
  <2> QED BY <2>1, <2>2, <2>3
<1> QED BY <1>1, <1>2, <1>3, <1>4

\* Only CATCH and the return to it call or leave pfCatch.
LEMMA CallsStay == Step => CATCH \/ Uncatch \/ calls' = calls
<1>1. Control => CATCH \/ Uncatch \/ calls' = calls
  BY DEF Control, Nest, EXIT, EXECUTE, THROW, ERRORQ_P, QUIT_P, BYE, HERE, LITERAL_P, ALITERAL_P, TwoLITERAL_P,
         CREATE_P, BODY_OFFSET, DEFER_P, NOOP, BRANCH, ZERO_BRANCH, DO_P, QDO_P, LOOP_P, PLUSLOOP_P, LEAVE_P, I, J, Proceed
<1>2. Locals => calls' = calls
  BY DEF Locals, LOCAL_ENTRY, LOCAL_EXIT, LOCAL_FETCH, LOCAL_STORE, LOCAL_PLUSSTORE, LOCAL_FETCH_N, LOCAL_STORE_N, Proceed
<1>3. Stacks => calls' = calls
  BY DEF Stacks, TO_R, R_FROM, R_FETCH, R_DROP, TwoTO_R, TwoR_FROM, TwoR_FETCH, RP_FETCH, RP_STORE, SP_FETCH, SP_STORE,
         DUP, DROP, QDUP, OVER, SWAP, PICKth, DEPTH, ROT, ROLL, TwoDUP, TwoOVER, TwoSWAP, Proceed
<1>4. Arithmetic => calls' = calls
  BY DEF Arithmetic, OneMinus, OnePlus, TwoMinus, TwoPlus, MINUS, PLUS, TIMES, MAX, MIN, Compare, CompareZero,
         D_PLUS, D_MINUS, D_UMTIMES, D_MTIMES, D_UMSMOD, D_MUSMOD, FETCH, STORE, PLUS_STORE,
         AND, OR, XOR, LSHIFT, RSHIFT, ARSHIFT, DIVIDE, Proceed
<1>5. Texts => calls' = calls
  BY DEF Texts, CFETCH, CSTORE, CMOVE, CMOVE_UP, FILL, COMPARE, SKIP, SCAN, LeaveOut, SOURCE, SOURCE_SET,
         VAR_TO_IN, VAR_BASE, VAR_RETURN_CODE, VAR_BYE_CODE, WORD, NUMBERQ_P, Proceed
<1>6. Terminal => calls' = calls
  BY DEF Terminal, DOT, EMIT_P, CRLF, FLUSHEMIT, VAR_OUT, TYPE, KEY, ACCEPT_P, Proceed
<1>7. FileWords => calls' = calls
  BY DEF FileWords, FILE_CREATE, FILE_OPEN, OpenNamed, FILE_DELETE, FILE_RENAME, FILE_CLOSE, FILE_FLUSH, FILE_READ,
         FILE_WRITE, FILE_SIZE, FILE_POSITION, AnswerOffset, FILE_REPOSITION, FILE_RESIZE, Answered,
         FILE_RO, FILE_RW, FILE_WO, FILE_BIN, Proceed
<1> QED BY <1>1, <1>2, <1>3, <1>4, <1>5, <1>6, <1>7 DEF Step

LEMMA StepKeeps == Step => CATCH \/ Uncatch \/ (calls' = calls /\ (Keeps(m', m) \/ Throws))
BY CallsStay, CallsKeep, LiteralsKeep, BranchesKeep, LocalsKeep, StacksKeep, ArithmeticKeeps, TextsKeep,
   TerminalKeeps, ThrowersKeep, FilesKeepRegisters DEF Step, Control, Terminal

\* No word loses a register.
LEMMA StepWhole == Step /\ Whole(m) => Whole(m')
<1> SUFFICES ASSUME Step, Whole(m) PROVE Whole(m') OBVIOUS
<1>1. CASE CATCH
  <2>1. \A v, level, xt : Keeps(v, m) => Whole(Catch(v, level, xt))
    <3>1. \A v, level, xt : Keeps(v, m) => Whole(LOAD_REGISTERS(v)) BY MacrosKeep DEF Keeps
    <3> QED BY <3>1 DEF Catch, Whole, Registers
  <2>2. Keeps(SAVE_REGISTERS(M_DROP(m)), m) BY MacrosKeep DEF Keeps
  <2> QED BY <1>1, <2>1, <2>2 DEF CATCH
<1>2. CASE Uncatch
  <2>1. \A v, call : Whole(v) => Whole(Resume(v, call)) BY DEF Resume, Whole
  <2>2. Whole(SAVE_REGISTERS(m)) BY MacrosKeep DEF Keeps
  <2> QED BY <1>2, <2>1, <2>2, MacrosKeep DEF Uncatch, Keeps
<1>3. CASE Keeps(m', m) BY <1>3 DEF Keeps
<1>4. CASE Throws
  <2>1. \A v, err : Whole(v) => Whole(M_THROW(v, err)) BY DEF M_THROW, Whole, Registers
  <2> QED BY <1>4, <2>1, MacrosKeep DEF Throws, Keeps
<1> QED BY <1>1, <1>2, <1>3, <1>4, StepKeeps

-----------------------------------------------------------------------------
(* What pfDoForth owns.                                                    *)

Inside == {"in AUTO.INIT", "in EntryPoint", "in pfQuit", "in pfIncludeFile", "in AUTO.TERM"}
\* The dictionary is there, and nothing has been released.
Loaded == {"AUTO.INIT", "EntryPoint", "pfIncludeFile", "AUTO.TERM", "delete"} \cup Inside
AllBlocks == Dictionary \cup TaskStacks \cup {"lTask", "cftd"}

\* Words run only inside a call of pfCatch from C.
RunsInside == m.running \/ calls # <<>> => at \in Inside

\* The pointers to the stacks tell what is there, until they are freed.
PointersTell ==
  /\ stack \in [TaskStacks -> {"unset", "null", "set"}]
  /\ at \notin {"pfTerm", "returned"} => \A s \in TaskStacks : s \in live <=> stack[s] = "set"
  /\ at \in Inside => \A s \in TaskStacks : stack[s] = "set"

\* Before the dictionary is there.
Starting ==
  /\ at \in {"pfCreateTask", "pfCreateLocalTask", "pfInit"} => tty = "normal" /\ prog = NoProgram /\ faults = {}
  /\ at = "pfCreateTask" => live = {}
  /\ at \in {"pfCreateTask", "pfCreateLocalTask"} => live \subseteq {"cftd"} /\ \A s \in TaskStacks : stack[s] = "unset"
  /\ at = "load" => {"lTask", "cftd"} \subseteq live /\ prog = NoProgram /\ faults = {}

\* While it is there, and afterwards.
During ==
  /\ at \in Loaded => Dictionary \cup {"lTask", "cftd"} \subseteq live /\ faults = {}
  /\ at = "error2" => {"lTask", "cftd"} \subseteq live /\ faults = {}
  /\ at \in {"pfTerm after error2", "failed"} => faults = {} /\ Result = Minus(1)
  /\ at \in {"pfTerm", "returned"} =>
       /\ prog = NoProgram \/ live = {}
       /\ faults = {} \/ \E s \in TaskStacks : stack[s] = "unset"
  /\ at \in {"returned", "failed"} => tty = "normal"

ExitInv ==
  /\ Whole(m)
  /\ RunsInside /\ live \subseteq AllBlocks
  /\ PointersTell /\ Starting /\ During

LEMMA StepInside == Step => m.running \/ Uncatch
<1>1. Control => m.running \/ Uncatch
  BY DEF Control, Nest, EXIT, EXECUTE, CATCH, THROW, ERRORQ_P, QUIT_P, BYE, HERE, LITERAL_P, ALITERAL_P,
         TwoLITERAL_P, CREATE_P, BODY_OFFSET, DEFER_P, NOOP, BRANCH, ZERO_BRANCH, DO_P, QDO_P, LOOP_P, PLUSLOOP_P,
         LEAVE_P, I, J, At
<1>2. Locals => m.running
  BY DEF Locals, LOCAL_ENTRY, LOCAL_EXIT, LOCAL_FETCH, LOCAL_STORE, LOCAL_PLUSSTORE, LOCAL_FETCH_N, LOCAL_STORE_N, At
<1>3. Stacks => m.running
  BY DEF Stacks, TO_R, R_FROM, R_FETCH, R_DROP, TwoTO_R, TwoR_FROM, TwoR_FETCH, RP_FETCH, RP_STORE, SP_FETCH, SP_STORE,
         DUP, DROP, QDUP, OVER, SWAP, PICKth, DEPTH, ROT, ROLL, TwoDUP, TwoOVER, TwoSWAP, At
<1>4. Arithmetic => m.running
  BY DEF Arithmetic, OneMinus, OnePlus, TwoMinus, TwoPlus, MINUS, PLUS, TIMES, MAX, MIN, Compare, CompareZero,
         D_PLUS, D_MINUS, D_UMTIMES, D_MTIMES, D_UMSMOD, D_MUSMOD, FETCH, STORE, PLUS_STORE,
         AND, OR, XOR, LSHIFT, RSHIFT, ARSHIFT, DIVIDE, At
<1>5. Texts => m.running
  BY DEF Texts, CFETCH, CSTORE, CMOVE, CMOVE_UP, FILL, COMPARE, SKIP, SCAN, SOURCE, SOURCE_SET,
         VAR_TO_IN, VAR_BASE, VAR_RETURN_CODE, VAR_BYE_CODE, WORD, NUMBERQ_P, At
<1>6. Terminal => m.running
  BY DEF Terminal, DOT, EMIT_P, CRLF, FLUSHEMIT, VAR_OUT, TYPE, KEY, ACCEPT_P, At
<1>7. FileWords => m.running
  BY DEF FileWords, FILE_CREATE, FILE_OPEN, FILE_DELETE, FILE_RENAME, FILE_CLOSE, FILE_FLUSH, FILE_READ,
         FILE_WRITE, FILE_SIZE, FILE_POSITION, FILE_REPOSITION, FILE_RESIZE, FILE_RO, FILE_RW, FILE_WO, FILE_BIN,
         OnStream, At
<1> QED BY <1>1, <1>2, <1>3, <1>4, <1>5, <1>6, <1>7 DEF Step

LEMMA ExitInit == Init => ExitInv
<1> SUFFICES ASSUME Init PROVE ExitInv OBVIOUS
<1>1. Whole(m) /\ ~m.running BY DEF Init, Rested, Whole, Registers
<1>2. RunsInside BY <1>1 DEF Init, RunsInside
<1>3. PointersTell BY DEF Init, PointersTell, Inside, TaskStacks
<1>4. Starting /\ During /\ live \subseteq AllBlocks BY DEF Init, Starting, During, Loaded, Inside
<1> QED BY <1>1, <1>2, <1>3, <1>4 DEF ExitInv

\* What C does to m outside pfCatch.
LEMMA SavedWhole ==
  ASSUME Whole(m)
  PROVE  /\ Whole(SAVE_REGISTERS(m)) /\ SAVE_REGISTERS(m).running = m.running
         /\ \A level, xt : Whole(Catch(m, level, xt))
         /\ \A v, sp, rp :
              LET w == [v EXCEPT !.tdStack = sp, !.tdReturn = rp]
              IN Whole(v) => (Whole(w) /\ w.running = v.running)
<1>1. Whole(SAVE_REGISTERS(m)) BY MacrosKeep DEF Keeps
<1>2. SAVE_REGISTERS(m).running = m.running BY DEF SAVE_REGISTERS, M_PUSH, Whole, Registers
<1>3. Whole(LOAD_REGISTERS(m)) BY MacrosKeep DEF Keeps
<1>4. \A level, xt : Whole(Catch(m, level, xt)) BY <1>3 DEF Catch, Whole, Registers
<1>5. ASSUME NEW v, NEW sp, NEW rp, Whole(v)
      PROVE  LET w == [v EXCEPT !.tdStack = sp, !.tdReturn = rp] IN Whole(w) /\ w.running = v.running
  BY <1>5 DEF Whole, Registers
<1> QED BY <1>1, <1>2, <1>4, <1>5

LEMMA InterpretStep == ExitInv /\ Interpret => ExitInv'
<1> SUFFICES ASSUME ExitInv, Interpret PROVE ExitInv' OBVIOUS
<1>1. UNCHANGED outer BY DEF Interpret
<1>2. Whole(m)' BY StepWhole DEF Interpret, ExitInv, Whole
<1>3. RunsInside' BY <1>1, StepInside DEF Interpret, ExitInv, RunsInside, outer, Uncatch
<1> QED BY <1>1, <1>2, <1>3 DEF ExitInv, outer, PointersTell, Starting, During

LEMMA StartStep == ExitInv /\ (pfCreateTask \/ pfCreateLocalTask \/ pfInit) => ExitInv'
<1>1. ASSUME ExitInv, pfCreateTask PROVE ExitInv'
  BY <1>1 DEF ExitInv, pfCreateTask, Whole, RunsInside, PointersTell, Starting, During, Inside, Loaded, AllBlocks,
              TaskStacks
<1>2. ASSUME ExitInv, pfCreateLocalTask PROVE ExitInv'
  <2>1. Whole(m)' /\ RunsInside' BY <1>2 DEF ExitInv, pfCreateLocalTask, Whole, RunsInside, Inside
  <2>2. live' \subseteq AllBlocks
    BY <1>2 DEF ExitInv, pfCreateLocalTask, pfCreateTaskStacks, Starting, AllBlocks, TaskStacks, StackOrder
  <2>3. PointersTell'
    <3>1. live \subseteq {"cftd"} /\ \A s \in TaskStacks : stack[s] = "unset" BY <1>2 DEF ExitInv, pfCreateLocalTask, Starting
    <3>2. at' = "pfInit" BY <1>2 DEF pfCreateLocalTask
    <3>3. CASE UNCHANGED <<live, stack>>
      BY <1>2, <3>1, <3>2, <3>3 DEF ExitInv, PointersTell, Inside, pfCreateLocalTask
    <3>4. ASSUME NEW n \in 0 .. 3, pfCreateTaskStacks(n) PROVE PointersTell'
      <4>1. stack' \in [TaskStacks -> {"unset", "null", "set"}] BY <3>4 DEF pfCreateTaskStacks
      <4>2. ASSUME NEW s \in TaskStacks PROVE s \in live' <=> stack'[s] = "set"
        BY <3>1, <3>4 DEF pfCreateTaskStacks, TaskStacks
      <4> QED BY <3>2, <4>1, <4>2 DEF PointersTell, Inside
    <3> QED BY <1>2, <3>3, <3>4 DEF pfCreateLocalTask
  <2>4. Starting' /\ During' BY <1>2 DEF ExitInv, pfCreateLocalTask, Starting, During, Inside, Loaded
  <2> QED BY <2>1, <2>2, <2>3, <2>4 DEF ExitInv
<1>3. ASSUME ExitInv, pfInit PROVE ExitInv'
  <2>1. Whole(m)' /\ RunsInside' /\ live' \subseteq AllBlocks BY <1>3 DEF ExitInv, pfInit, Whole, RunsInside, Inside
  <2>2. PointersTell' BY <1>3 DEF ExitInv, pfInit, PointersTell, Inside
  <2>3. /\ prog' = NoProgram
        /\ at' = "crashed" \/ (at' = "pfTerm" /\ faults' = {}) \/ (at' = "load" /\ faults' = {} /\ {"lTask", "cftd"} \subseteq live')
    BY <1>3 DEF ExitInv, pfInit, Starting
  <2>4. Starting' BY <2>3 DEF Starting
  <2>5. During' BY <2>3 DEF During, Inside, Loaded
  <2> QED BY <2>1, <2>2, <2>4, <2>5 DEF ExitInv
<1> QED BY <1>1, <1>2, <1>3

LEMMA LoadStep == ExitInv /\ LoadDictionary => ExitInv'
<1> SUFFICES ASSUME ExitInv, LoadDictionary PROVE ExitInv' OBVIOUS
<1>1. Whole(m)' /\ m'.running = m.running
  <2>1. m' = m \/ \E mem, input, here : m' = [m EXCEPT !.mem = mem, !.input = input, !.here = here]
    BY DEF LoadDictionary
  <2> QED BY <2>1 DEF ExitInv, Whole, Registers
<1>2. RunsInside' BY <1>1 DEF ExitInv, LoadDictionary, RunsInside, Inside
<1>3. live' \subseteq AllBlocks /\ PointersTell'
  BY DEF ExitInv, LoadDictionary, AllBlocks, PointersTell, Inside, TaskStacks, Dictionary
<1>4. /\ {"lTask", "cftd"} \subseteq live' /\ faults' = {}
      /\ at' = "error2" \/ (at' = "AUTO.INIT" /\ Dictionary \subseteq live')
  BY DEF ExitInv, LoadDictionary, Starting
<1>5. Starting' BY <1>4 DEF Starting
<1>6. During' BY <1>4 DEF During, Inside, Loaded
<1> QED BY <1>1, <1>2, <1>3, <1>5, <1>6 DEF ExitInv

\* A run of a word from a place where the dictionary is loaded.
LEMMA RunStep ==
  ASSUME ExitInv, at \in Loaded \ Inside, NEW xt, NEW place \in Inside, Run(xt, place), UNCHANGED <<prog, live, stack, tty>>
  PROVE  ExitInv'
<1>1. Whole(m)' BY SavedWhole DEF ExitInv, Run, Whole
<1>2. at' = "crashed" \/ (at' = place /\ \A s \in TaskStacks : stack[s] = "set") BY DEF Run
<1>3. RunsInside'
  <2>1. UNCHANGED <<m, calls>> \/ at' = place BY DEF Run
  <2> QED BY <2>1 DEF ExitInv, RunsInside
<1>4. at \notin {"pfTerm", "returned"} BY DEF Loaded, Inside
<1>5. PointersTell' BY <1>2, <1>4 DEF ExitInv, PointersTell, Inside
<1>6. faults' = faults \/ at' = "crashed" BY DEF Run
<1>7. Starting' /\ During' BY <1>2, <1>6 DEF ExitInv, Starting, During, Inside, Loaded
<1> QED BY <1>1, <1>3, <1>5, <1>7 DEF ExitInv

\* The places from which C calls pfCatch.
LEMMA CallStep ==
  ExitInv /\ (RunAutoInit \/ RunEntryPoint \/ RunCommand \/ EndOfInput \/ RunSourceWord \/ RunAutoTerm) => ExitInv'
<1>1. ASSUME ExitInv, NEW xt, NEW place \in Inside, Run(xt, place), UNCHANGED <<prog, live, stack, tty>>,
             at \in {"AUTO.INIT", "EntryPoint", "pfIncludeFile", "AUTO.TERM"}
      PROVE  ExitInv'
  BY <1>1, RunStep DEF Loaded, Inside
<1>2. ASSUME ExitInv, UNCHANGED <<m, calls, prog, live, stack, tty, faults>>,
             \/ at = "AUTO.INIT" /\ at' = "EntryPoint"
             \/ at = "AUTO.TERM" /\ at' = "delete"
      PROVE  ExitInv'
  BY <1>2 DEF ExitInv, Whole, RunsInside, PointersTell, Starting, During, Inside, Loaded
<1>3. ExitInv /\ RunAutoInit => ExitInv' BY <1>1, <1>2 DEF RunAutoInit, Inside
<1>4. ExitInv /\ RunAutoTerm => ExitInv' BY <1>1, <1>2 DEF RunAutoTerm, Inside
<1>5. ExitInv /\ (RunEntryPoint \/ RunCommand \/ EndOfInput \/ RunSourceWord) => ExitInv'
  BY <1>1 DEF RunEntryPoint, RunCommand, EndOfInput, RunSourceWord, Inside
<1> QED BY <1>3, <1>4, <1>5

\* pfCatch has returned: no word runs.
LEMMA ReturnStep ==
  ExitInv /\ (AutoInitDone \/ EntryPointDone \/ CommandDone \/ SourceWordDone \/ AutoTermDone) => ExitInv'
<1> SUFFICES ASSUME ExitInv, AutoInitDone \/ EntryPointDone \/ CommandDone \/ SourceWordDone \/ AutoTermDone
             PROVE  ExitInv'
  OBVIOUS
<1>1. at \in Inside /\ Returned /\ UNCHANGED <<calls, prog, live, stack, tty, faults>>
  BY DEF AutoInitDone, EntryPointDone, CommandDone, SourceWordDone, AutoTermDone, Inside
<1>2. Whole(m)' /\ m'.running = m.running
  <2>1. m' = SAVE_REGISTERS(m) \/ \E sp, rp : m' = [SAVE_REGISTERS(m) EXCEPT !.tdStack = sp, !.tdReturn = rp]
    BY DEF AutoInitDone, EntryPointDone, CommandDone, SourceWordDone, AutoTermDone
  <2>2. Whole(SAVE_REGISTERS(m)) /\ SAVE_REGISTERS(m).running = m.running BY SavedWhole DEF ExitInv
  <2> QED BY <2>1, <2>2 DEF Whole, Registers
<1>3. RunsInside' BY <1>1, <1>2 DEF Returned, RunsInside
<1>4. at' \in {"error2", "EntryPoint", "pfIncludeFile", "AUTO.TERM", "delete"}
  BY DEF AutoInitDone, EntryPointDone, CommandDone, SourceWordDone, AutoTermDone
<1>5. at \in Loaded /\ at \notin {"pfTerm", "returned"} BY <1>1 DEF Loaded, Inside
<1>6. PointersTell' BY <1>1, <1>4, <1>5 DEF ExitInv, PointersTell, Inside
<1>7. Starting' /\ During' BY <1>1, <1>4, <1>5 DEF ExitInv, Starting, During, Inside, Loaded
<1> QED BY <1>1, <1>2, <1>3, <1>6, <1>7 DEF ExitInv

LEMMA SourceStep == ExitInv /\ (OpenSource \/ EndOfSource) => ExitInv'
<1> SUFFICES ASSUME ExitInv, OpenSource \/ EndOfSource PROVE ExitInv' OBVIOUS
<1>1. /\ at \in {"EntryPoint", "pfIncludeFile"} /\ at' \in {"pfIncludeFile", "AUTO.TERM"}
      /\ UNCHANGED <<m, calls, prog, live, stack, tty, faults>>
  BY DEF OpenSource, EndOfSource
<1> QED BY <1>1 DEF ExitInv, Whole, RunsInside, PointersTell, Starting, During, Inside, Loaded

LEMMA ReleaseStep == ExitInv /\ (DeleteAll \/ Error2 \/ pfTerm) => ExitInv'
<1>1. ASSUME ExitInv, DeleteAll PROVE ExitInv'
  <2>1. PICK garbage \in SUBSET {s \in TaskStacks : stack[s] = "unset"} :
          Free(Dictionary \cup {s \in TaskStacks : stack[s] = "set"} \cup garbage \cup {"lTask", "cftd"})
    BY <1>1 DEF DeleteAll
  <2>2. at = "delete" /\ at' = "pfTerm" /\ UNCHANGED <<m, calls, prog, stack, tty>> BY <1>1 DEF DeleteAll
  <2>3. live \subseteq AllBlocks /\ \A s \in TaskStacks : s \in live <=> stack[s] = "set"
    BY <1>1, <2>2 DEF ExitInv, PointersTell
  <2>4. live' = {} BY <2>1, <2>3 DEF Free, AllBlocks
  <2>5. Dictionary \cup {"lTask", "cftd"} \subseteq live /\ faults = {} BY <1>1, <2>2 DEF ExitInv, During, Loaded
  <2>6. faults' = {} \/ \E s \in TaskStacks : stack'[s] = "unset"
    <3>1. CASE garbage = {} BY <2>1, <2>3, <2>5, <3>1 DEF Free
    <3>2. CASE garbage # {} BY <2>2, <3>2
    <3> QED BY <3>1, <3>2
  <2>7. Whole(m)' /\ RunsInside' /\ live' \subseteq AllBlocks
    BY <1>1, <2>2, <2>4 DEF ExitInv, Whole, RunsInside, Inside
  <2>8. PointersTell' BY <1>1, <2>2 DEF ExitInv, PointersTell, Inside
  <2>9. Starting' /\ During' BY <2>2, <2>4, <2>6 DEF Starting, During, Inside, Loaded
  <2> QED BY <2>7, <2>8, <2>9 DEF ExitInv
<1>2. ASSUME ExitInv, Error2 PROVE ExitInv'
  <2>1. /\ at = "error2" /\ at' = "pfTerm after error2" /\ Free({"cftd"}) /\ Result' = Minus(1)
        /\ UNCHANGED <<m, calls, prog, stack, tty>>
    BY <1>2 DEF Error2
  <2>2. "cftd" \in live /\ faults = {} BY <1>2, <2>1 DEF ExitInv, During
  <2>3. live' = live \ {"cftd"} /\ faults' = {} BY <2>1, <2>2 DEF Free
  <2>4. Whole(m)' /\ RunsInside' /\ live' \subseteq AllBlocks
    BY <1>2, <2>1, <2>3 DEF ExitInv, Whole, RunsInside, Inside
  <2>5. PointersTell' BY <1>2, <2>1, <2>3 DEF ExitInv, PointersTell, Inside, TaskStacks
  <2>6. Starting' /\ During' BY <2>1, <2>3 DEF Starting, During, Inside, Loaded
  <2> QED BY <2>4, <2>5, <2>6 DEF ExitInv
<1>3. ASSUME ExitInv, pfTerm PROVE ExitInv'
  <2>1. /\ \/ at = "pfTerm" /\ at' = "returned"
           \/ at = "pfTerm after error2" /\ at' = "failed" /\ UNCHANGED Result
        /\ tty' = "normal" /\ UNCHANGED <<m, calls, prog, live, stack, faults>>
    BY <1>3 DEF pfTerm
  <2>2. Whole(m)' /\ RunsInside' /\ live' \subseteq AllBlocks /\ PointersTell'
    BY <1>3, <2>1 DEF ExitInv, Whole, RunsInside, PointersTell, Inside
  <2>3. Starting' /\ During' BY <1>3, <2>1 DEF ExitInv, Starting, During, Inside, Loaded
  <2> QED BY <2>2, <2>3 DEF ExitInv
<1> QED BY <1>1, <1>2, <1>3

LEMMA ExitNext == ExitInv /\ [Next]_vars => ExitInv'
<1>1. ExitInv /\ UNCHANGED vars => ExitInv'
  BY DEF vars, outer, ExitInv, Whole, RunsInside, PointersTell, Starting, During
<1> QED BY <1>1, InterpretStep, StartStep, LoadStep, CallStep, ReturnStep, SourceStep, ReleaseStep DEF Next

LEMMA ExitAlways == Spec => []ExitInv
BY ExitInit, ExitNext, PTL DEF Spec

(* For every dictionary and whatever its words do to the memory, the       *)
(* stacks and the files: pfDoForth leaves the terminal as it was, answers  *)
(* -1 without a dictionary and when AUTO.INIT failed, releases what it     *)
(* allocated once and after the last word, and words run only on stacks    *)
(* and a dictionary that are there.  pf_core.c:533-694                     *)
THEOREM CleansUp == Spec => []CleanExit
<1>1. ExitInv => CleanExit
  <2> SUFFICES ASSUME ExitInv PROVE CleanExit OBVIOUS
  <2>1. /\ at \in {"returned", "failed"} => tty = "normal"
        /\ at = "failed" => Result = Minus(1)
    BY DEF ExitInv, During
  <2>2. at \in {"returned", "failed"} /\ faults # {} => at = "returned" /\ \E s \in TaskStacks : stack[s] = "unset"
    BY DEF ExitInv, During
  <2>3. at = "returned" /\ prog # NoProgram => live = {} BY DEF ExitInv, During
  <2>4. m.running => Dictionary \cup TaskStacks \cup {"lTask", "cftd"} \subseteq live
    <3> SUFFICES ASSUME m.running PROVE Dictionary \cup TaskStacks \cup {"lTask", "cftd"} \subseteq live
      OBVIOUS
    <3>1. at \in Inside BY DEF ExitInv, RunsInside
    <3>2. at \in Loaded /\ at \notin {"pfTerm", "returned"} BY <3>1 DEF Loaded, Inside
    <3>3. \A s \in TaskStacks : s \in live BY <3>1, <3>2 DEF ExitInv, PointersTell
    <3> QED BY <3>2, <3>3 DEF ExitInv, During
  <2> QED BY <2>1, <2>2, <2>3, <2>4 DEF CleanExit
<1> QED BY <1>1, ExitAlways, PTL

-----------------------------------------------------------------------------
(* CATCH and THROW.                                                        *)

\* w is the level of pfCatch above the one of call: it started on its stacks.
Above(w, call) == w.irp = call.rp /\ (call.sp \in Int => w.isp = call.sp + 1)

\* A throw has ended the level.
Thrown(v) == v.err # 0 /\ v.irp \in Int

CatchInv ==
  /\ \E S : calls \in Seq(S)
  /\ \A i \in 1 .. Len(calls) : ~Thrown(calls[i])
  /\ \A i \in 1 .. Len(calls) - 1 : Above(calls[i + 1], calls[i])
  /\ calls # <<>> => Above(m, calls[Len(calls)])
  /\ Thrown(m) => ~m.running
  /\ Thrown(m) /\ calls # <<>> => m.rp = m.irp /\ m.sp = m.isp

LEMMA CatchOfCatch ==
  ASSUME Whole(m), NEW level, NEW xt
  PROVE  LET w == Catch(SAVE_REGISTERS(M_DROP(m)), level, xt)
         IN Above(w, m) /\ w.err = 0
<1> DEFINE d == M_DROP(m)  s == SAVE_REGISTERS(d)  l == LOAD_REGISTERS(s)
<1>1. Whole(d) /\ d.rp = m.rp /\ d.sp = m.sp + 1 BY DEF M_DROP, Whole, Registers
<1> HIDE DEF d
<1>2. Whole(s) /\ s.tdReturn = d.rp /\ s.tdStack = d.sp - 1 BY <1>1 DEF SAVE_REGISTERS, M_PUSH, Whole, Registers
<1> HIDE DEF s
<1>3. Whole(l) /\ l.rp = s.tdReturn /\ l.sp = s.tdStack + 1 BY <1>2 DEF LOAD_REGISTERS, Whole, Registers
<1> HIDE DEF l
<1>4. Catch(s, level, xt).irp = l.rp /\ Catch(s, level, xt).isp = l.sp /\ Catch(s, level, xt).err = 0
  BY <1>3 DEF Catch, Whole, Registers, l
<1> QED BY <1>1, <1>2, <1>3, <1>4 DEF Above, d, s

LEMMA CatchStep == CatchInv /\ Whole(m) /\ CATCH => CatchInv'
<1> SUFFICES ASSUME CatchInv, Whole(m), CATCH PROVE CatchInv' OBVIOUS
<1> DEFINE c == [f \in Registers |-> Owe(m, NULL)[f]]
<1>1. m.running /\ calls' = Append(calls, c) BY DEF CATCH, At
<1>2. c.rp = m.rp /\ c.sp = m.sp /\ c.irp = m.irp /\ c.isp = m.isp /\ c.err = m.err
  BY DEF Registers, Owe, Whole
<1> HIDE DEF c
<1>3. Above(m', m) /\ m'.err = 0 BY CatchOfCatch DEF CATCH
<1>4. PICK S : calls \in Seq(S) BY DEF CatchInv
<1>5. calls \in Seq(S \cup {c}) BY <1>4, SeqMonotonic
<1>6. /\ calls' \in Seq(S \cup {c}) /\ Len(calls') = Len(calls) + 1 /\ calls'[Len(calls) + 1] = c
      /\ \A i \in 1 .. Len(calls) : calls'[i] = calls[i]
      /\ Len(calls) \in Nat
  BY <1>1, <1>5
<1>7. ~Thrown(c) BY <1>1, <1>2 DEF CatchInv, Thrown
<1>8. \A i \in 1 .. Len(calls') : ~Thrown(calls'[i]) BY <1>6, <1>7 DEF CatchInv
<1>9. \A i \in 1 .. Len(calls') - 1 : Above(calls'[i + 1], calls'[i])
  <2> TAKE i \in 1 .. Len(calls') - 1
  <2>1. CASE i = Len(calls)
    <3>1. calls # <<>> BY <2>1, <1>6
    <3>2. Above(m, calls[Len(calls)]) BY <3>1 DEF CatchInv
    <3> QED BY <2>1, <3>2, <1>2, <1>6 DEF Above
  <2>2. CASE i # Len(calls)
    <3>1. i \in 1 .. Len(calls) - 1 /\ i + 1 \in 1 .. Len(calls) /\ i \in 1 .. Len(calls) BY <2>2, <1>6
    <3> QED BY <3>1, <1>6 DEF CatchInv
  <2> QED BY <2>1, <2>2
<1>10. Above(m', calls'[Len(calls')]) BY <1>2, <1>3, <1>6 DEF Above
<1>11. ~Thrown(m') BY <1>3 DEF Thrown
<1> QED BY <1>6, <1>8, <1>9, <1>10, <1>11 DEF CatchInv

\* Back in CATCH.
LEMMA BackInCatch ==
  ASSUME Whole(m), NEW call
  PROVE  LET w == EndOfLoop(Paid(PUSH_TOS(LOAD_REGISTERS(Resume(SAVE_REGISTERS(m), call)), m.err)))
         IN /\ w.irp = call.irp /\ w.isp = call.isp /\ w.err = call.err
            /\ w.rp = m.rp /\ (m.sp \in Int => w.sp = m.sp - 1) /\ w.lp = call.lp
            /\ w.tos = m.err /\ w.ip = IF call.ip = NULL THEN NULL ELSE call.ip + 1
<1> DEFINE s == SAVE_REGISTERS(m)  r == Resume(s, call)  l == LOAD_REGISTERS(r)  p == PUSH_TOS(l, m.err)
           o == Paid(p)
<1>1. Whole(s) /\ s.tdReturn = m.rp /\ s.tdStack = m.sp - 1
  BY DEF SAVE_REGISTERS, M_PUSH, Whole, Registers
<1> HIDE DEF s
<1>2. /\ Whole(r) /\ r.tdReturn = m.rp /\ r.tdStack = m.sp - 1
      /\ r.irp = call.irp /\ r.isp = call.isp /\ r.err = call.err /\ r.lp = call.lp /\ r.ip = call.ip
  BY <1>1 DEF Resume, Whole, Registers
<1> HIDE DEF r
<1>3. /\ Whole(l) /\ l.rp = m.rp /\ l.sp = (m.sp - 1) + 1
      /\ l.irp = call.irp /\ l.isp = call.isp /\ l.err = call.err /\ l.lp = call.lp /\ l.ip = call.ip
  BY <1>2 DEF LOAD_REGISTERS, Whole, Registers
<1> HIDE DEF l
<1>4. /\ Whole(p) /\ p.rp = m.rp /\ p.sp = ((m.sp - 1) + 1) - 1 /\ p.tos = m.err
      /\ p.irp = call.irp /\ p.isp = call.isp /\ p.err = call.err /\ p.lp = call.lp /\ p.ip = call.ip
  <2> DEFINE q == M_PUSH(l, l.tos)
  <2>1. /\ Whole(q) /\ q.rp = l.rp /\ q.sp = l.sp - 1
        /\ q.irp = l.irp /\ q.isp = l.isp /\ q.err = l.err /\ q.lp = l.lp /\ q.ip = l.ip
    BY <1>3 DEF M_PUSH, Whole, Registers
  <2>2. p = [q EXCEPT !.tos = m.err] BY DEF PUSH_TOS
  <2> HIDE DEF p, q
  <2>3. /\ Whole(p) /\ p.rp = q.rp /\ p.sp = q.sp /\ p.tos = m.err
        /\ p.irp = q.irp /\ p.isp = q.isp /\ p.err = q.err /\ p.lp = q.lp /\ p.ip = q.ip
    BY <2>1, <2>2 DEF Whole, Registers
  <2> QED BY <1>3, <2>1, <2>3
<1> HIDE DEF p
<1>5. /\ Whole(o) /\ o.rp = m.rp /\ o.sp = ((m.sp - 1) + 1) - 1 /\ o.tos = m.err
      /\ o.irp = call.irp /\ o.isp = call.isp /\ o.err = call.err /\ o.lp = call.lp /\ o.ip = call.ip
  BY <1>4 DEF Paid, Whole, Registers
<1> HIDE DEF o
<1> DEFINE w == EndOfLoop(o)
<1>6. /\ w.rp = m.rp /\ w.sp = ((m.sp - 1) + 1) - 1 /\ w.tos = m.err
      /\ w.irp = call.irp /\ w.isp = call.isp /\ w.err = call.err /\ w.lp = call.lp
      /\ w.ip = IF call.ip = NULL THEN NULL ELSE call.ip + 1
  BY <1>5 DEF EndOfLoop, Whole, Registers
<1> QED BY <1>6 DEF o, p, l, r, s

LEMMA UncatchStep == CatchInv /\ Whole(m) /\ Uncatch => CatchInv' /\ throwRestores
<1> SUFFICES ASSUME CatchInv, Whole(m), Uncatch PROVE CatchInv' /\ throwRestores OBVIOUS
<1> DEFINE n == Len(calls)  call == Last(calls)
<1>1. ~m.running /\ calls # <<>> /\ calls' = Front(calls) BY DEF Uncatch
<1>2. /\ m'.irp = call.irp /\ m'.isp = call.isp /\ m'.err = call.err
      /\ m'.rp = m.rp /\ (m.sp \in Int => m'.sp = m.sp - 1) /\ m'.lp = call.lp
      /\ m'.tos = m.err /\ m'.ip = IF call.ip = NULL THEN NULL ELSE call.ip + 1
  BY BackInCatch DEF Uncatch
<1>3. PICK S : calls \in Seq(S) BY DEF CatchInv
<1>4. n \in Nat /\ n > 0 /\ call = calls[n] BY <1>1, <1>3 DEF Last
<1>5. /\ calls' \in Seq(S) /\ Len(calls') = n - 1
      /\ \A i \in 1 .. n - 1 : calls'[i] = calls[i]
  <2> DEFINE k == n - 1
  <2>1. calls' = SubSeq(calls, 1, k) BY <1>1 DEF Front
  <2>2. k \in Nat /\ k < n BY <1>4
  <2> HIDE DEF k
  <2>3. \A i \in 1 .. k : calls[i] \in S
    <3> TAKE i \in 1 .. k
    <3>1. i \in 1 .. Len(calls) BY <1>4, <2>2
    <3> QED BY <3>1, <1>3
  <2>4. /\ calls' \in Seq(S)
        /\ Len(calls') = IF 1 <= k THEN k - 1 + 1 ELSE 0
        /\ \A i \in 1 .. k - 1 + 1 : calls'[i] = calls[1 + i - 1]
    BY <2>1, <2>2, <2>3, SubSeqProperties
  <2>5. Len(calls') = k /\ \A i \in 1 .. k : calls'[i] = calls[i] BY <2>2, <2>4
  <2> QED BY <2>4, <2>5 DEF k
<1> HIDE DEF n, call
<1>6. ~Thrown(calls[n]) /\ Above(m, calls[n]) BY <1>1, <1>4 DEF CatchInv, n
<1>7. ~Thrown(m') BY <1>2, <1>4, <1>6 DEF Thrown
<1>8. \A i \in 1 .. Len(calls') : ~Thrown(calls'[i]) BY <1>4, <1>5 DEF CatchInv, n
<1>9. \A i \in 1 .. Len(calls') - 1 : Above(calls'[i + 1], calls'[i])
  <2> TAKE i \in 1 .. Len(calls') - 1
  <2>1. i \in 1 .. n - 1 /\ i + 1 \in 1 .. n - 1 BY <1>4, <1>5
  <2>2. Above(calls[i + 1], calls[i]) BY <2>1 DEF CatchInv, n
  <2> QED BY <2>1, <2>2, <1>5
<1>10. calls' # <<>> => Above(m', calls'[Len(calls')])
  <2> SUFFICES ASSUME calls' # <<>> PROVE Above(m', calls'[Len(calls')]) OBVIOUS
  <2>1. n - 1 \in 1 .. n - 1 /\ n - 1 + 1 = n BY <1>4, <1>5
  <2>2. Above(calls[n - 1 + 1], calls[n - 1]) BY <2>1 DEF CatchInv, n
  <2>3. calls'[Len(calls')] = calls[n - 1] BY <2>1, <1>5
  <2> QED BY <2>1, <2>2, <2>3, <1>2, <1>4 DEF Above
<1>11. CatchInv' BY <1>5, <1>7, <1>8, <1>9, <1>10 DEF CatchInv
<1>12. ASSUME m.err # 0, call.rp \in Int, call.sp \in Int
       PROVE  m'.rp = call.rp /\ m'.sp = call.sp
  <2>1. m.irp = call.rp /\ m.isp = call.sp + 1 BY <1>4, <1>6, <1>12 DEF Above
  <2>2. m.rp = m.irp /\ m.sp = m.isp BY <1>1, <1>12, <2>1 DEF CatchInv, Thrown
  <2> QED BY <1>2, <1>12, <2>1, <2>2
<1>13. throwRestores BY <1>2, <1>12 DEF throwRestores, call
<1> QED BY <1>11, <1>13

\* Another word of the running pfCatch.
LEMMA WordStep == CatchInv /\ Whole(m) /\ m.running /\ calls' = calls /\ (Keeps(m', m) \/ Throws) => CatchInv'
<1> SUFFICES ASSUME CatchInv, Whole(m), m.running, calls' = calls, Keeps(m', m) \/ Throws PROVE CatchInv' OBVIOUS
<1>1. ~Thrown(m) BY DEF CatchInv
<1>2. CASE Keeps(m', m)
  <2>1. m'.irp = m.irp /\ m'.isp = m.isp /\ m'.err = m.err BY <1>2 DEF Keeps
  <2>2. ~Thrown(m') BY <1>1, <2>1 DEF Thrown
  <2>3. calls # <<>> => Above(m', calls[Len(calls)]) BY <2>1 DEF CatchInv, Above
  <2> QED BY <2>2, <2>3 DEF CatchInv
<1>3. CASE Throws
  <2>1. PICK v, err : Keeps(v, m) /\ m' = EndOfLoop(M_THROW(v, err)) BY <1>3 DEF Throws
  <2>2. Whole(v) /\ v.irp = m.irp /\ v.isp = m.isp BY <2>1 DEF Keeps
  <2> DEFINE t == M_THROW(v, err)
  <2>3. Whole(t) /\ t.irp = m.irp /\ t.isp = m.isp /\ t.rp = m.irp /\ t.sp = m.isp
    BY <2>2 DEF M_THROW, Whole, Registers
  <2>4. m' = EndOfLoop(t) BY <2>1
  <2> HIDE DEF t
  <2>5. m'.irp = m.irp /\ m'.isp = m.isp /\ m'.rp = m.irp /\ m'.sp = m.isp
    BY <2>3, <2>4 DEF EndOfLoop, Whole, Registers
  <2>6. Thrown(m') => ~m'.running
    <3> SUFFICES ASSUME m.irp \in Int PROVE ~m'.running BY <2>5 DEF Thrown
    <3> DEFINE w == IF t.ip = NULL THEN t ELSE [t EXCEPT !.token = t.mem[t.ip], !.ip = @ + 1]
    <3>1. Whole(w) /\ w.irp = m.irp /\ w.rp = m.irp BY <2>3 DEF Whole, Registers
    <3>2. m' = [w EXCEPT !.running = w.irp - w.rp > 0] BY <2>4 DEF EndOfLoop
    <3> HIDE DEF w
    <3>3. ~(w.irp - w.rp > 0) BY <3>1
    <3> QED BY <3>1, <3>2, <3>3 DEF Whole, Registers
  <2>7. calls # <<>> => Above(m', calls[Len(calls)]) BY <2>5 DEF CatchInv, Above
  <2> QED BY <2>5, <2>6, <2>7 DEF CatchInv
<1> QED BY <1>2, <1>3

\* Outside pfCatch nothing waits, and what C runs has no exception yet.
Outside == calls' = calls /\ (m' = m \/ (calls = <<>> /\ (~m'.running \/ m'.err = 0)))

LEMMA OutsideStep == ExitInv /\ Next => Interpret \/ Outside
<1> SUFFICES ASSUME ExitInv, Next, ~Interpret PROVE Outside OBVIOUS
<1>1. Whole(m) BY DEF ExitInv
<1>2. ASSUME at \notin Inside PROVE ~m.running /\ calls = <<>> BY <1>2 DEF ExitInv, RunsInside
<1>3. ASSUME at \notin Inside, NEW xt, NEW place, Run(xt, place) PROVE Outside
  <2>1. Whole(LOAD_REGISTERS(m)) BY <1>1, MacrosKeep DEF Keeps
  <2>2. Catch(m, 1, xt).err = 0 BY <2>1 DEF Catch, Whole, Registers
  <2> QED BY <1>2, <1>3, <2>2 DEF Run, Outside
<1>4. ~Returned \/ ~SAVE_REGISTERS(m).running BY <1>1, SavedWhole DEF Returned
<1>5. CASE AutoInitDone \/ EntryPointDone \/ SourceWordDone \/ AutoTermDone
  BY <1>4, <1>5 DEF AutoInitDone, EntryPointDone, SourceWordDone, AutoTermDone, Returned, Outside
<1>6. CASE CommandDone
  <2>1. Whole(SAVE_REGISTERS(m)) BY <1>1, SavedWhole
  <2>2. \A sp, rp : [SAVE_REGISTERS(m) EXCEPT !.tdStack = sp, !.tdReturn = rp].running = SAVE_REGISTERS(m).running
    BY <1>1, <2>1, SavedWhole
  <2>3. ~m'.running /\ calls = <<>> /\ calls' = calls
    BY <1>4, <1>6, <2>2 DEF CommandDone, Returned
  <2> QED BY <2>3 DEF Outside
<1>7. CASE LoadDictionary
  <2>1. at \notin Inside BY <1>7 DEF LoadDictionary, Inside
  <2>2. \A mem, input, here : [m EXCEPT !.mem = mem, !.input = input, !.here = here].running = m.running
    BY <1>1 DEF Whole, Registers
  <2>3. ASSUME NEW p,
               m' = [m EXCEPT !.mem = [i \in CodeBase .. CodeBase + Len(p.code) - 1 |->
                                         p.code[i - CodeBase + 1]] @@ @,
                              !.input = p.input, !.here = CodeBase + Len(p.code)]
        PROVE  m'.running = m.running
    <3> DEFINE mem == [i \in CodeBase .. CodeBase + Len(p.code) - 1 |-> p.code[i - CodeBase + 1]] @@ m.mem
               here == CodeBase + Len(p.code)
    <3>1. m' = [m EXCEPT !.mem = mem, !.input = p.input, !.here = here] BY <2>3
    <3> HIDE DEF mem, here
    <3> QED BY <2>2, <3>1
  <2>4. calls' = calls BY <1>7 DEF LoadDictionary
  <2>5. m' = m \/ m'.running = m.running BY <1>7, <2>3 DEF LoadDictionary
  <2> QED BY <1>2, <2>1, <2>4, <2>5 DEF Outside
<1>8. CASE RunAutoInit \/ RunEntryPoint \/ RunCommand \/ EndOfInput \/ RunSourceWord \/ RunAutoTerm
  <2>1. at \notin Inside
    BY <1>8 DEF RunAutoInit, RunEntryPoint, RunCommand, EndOfInput, RunSourceWord, RunAutoTerm, Inside
  <2>2. UNCHANGED <<m, calls>> \/ \E xt, place : Run(xt, place)
    BY <1>8 DEF RunAutoInit, RunEntryPoint, RunCommand, EndOfInput, RunSourceWord, RunAutoTerm
  <2> QED BY <1>3, <2>1, <2>2 DEF Outside
<1>9. CASE \/ pfCreateTask \/ pfCreateLocalTask \/ pfInit \/ OpenSource \/ EndOfSource
           \/ DeleteAll \/ Error2 \/ pfTerm
  BY <1>9 DEF pfCreateTask, pfCreateLocalTask, pfInit, OpenSource, EndOfSource, DeleteAll, Error2, pfTerm, Outside
<1> QED BY <1>5, <1>6, <1>7, <1>8, <1>9 DEF Next

LEMMA CatchInit == Init => CatchInv
<1> SUFFICES ASSUME Init PROVE CatchInv OBVIOUS
<1>1. calls = <<>> /\ m.err = 0 BY DEF Init, Rested
<1>2. calls \in Seq({}) /\ Len(calls) = 0 BY <1>1
<1> QED BY <1>1, <1>2 DEF CatchInv, Thrown

LEMMA CatchNext ==
  CatchInv /\ ExitInv /\ [Next]_vars => CatchInv' /\ [throwRestores]_<<m, calls>>
<1> SUFFICES ASSUME CatchInv, ExitInv, [Next]_vars PROVE CatchInv' /\ [throwRestores]_<<m, calls>> OBVIOUS
<1>1. Whole(m) /\ \E S : calls \in Seq(S) BY DEF ExitInv, CatchInv
<1>2. calls' = calls => throwRestores BY <1>1 DEF throwRestores
<1>3. CASE UNCHANGED vars
  <2>1. m' = m /\ calls' = calls BY <1>3 DEF vars
  <2> QED BY <1>2, <2>1 DEF CatchInv
<1>4. CASE Interpret
  <2>1. CASE CATCH
    <3>1. Len(calls') = Len(calls) + 1 /\ Len(calls) \in Nat
      <4> DEFINE c == [f \in Registers |-> Owe(m, NULL)[f]]
      <4>1. calls' = Append(calls, c) BY <2>1 DEF CATCH
      <4> HIDE DEF c
      <4>2. PICK S : calls \in Seq(S) BY <1>1
      <4>3. calls \in Seq(S \cup {c}) BY <4>2, SeqMonotonic
      <4> QED BY <4>1, <4>3
    <3>2. throwRestores BY <3>1 DEF throwRestores
    <3> QED BY <1>1, <2>1, <3>2, CatchStep
  <2>2. CASE Uncatch BY <1>1, <2>2, UncatchStep
  <2>3. CASE ~CATCH /\ ~Uncatch
    <3>1. m.running /\ calls' = calls /\ (Keeps(m', m) \/ Throws)
      BY <1>4, <2>3, StepKeeps, StepInside DEF Interpret
    <3> QED BY <1>1, <1>2, <3>1, WordStep
  <2> QED BY <2>1, <2>2, <2>3
<1>5. CASE Outside
  <2>1. CatchInv' BY <1>5 DEF Outside, CatchInv, Thrown
  <2> QED BY <1>2, <1>5, <2>1 DEF Outside
<1> QED BY <1>3, <1>4, <1>5, OutsideStep

(* In every dictionary: a THROW, from whatever word, nested however deep,  *)
(* comes back to the CATCH it belongs to with the stack pointers, locals   *)
(* and instruction pointer of that CATCH and the exception on top; RP!,    *)
(* SP! and unbalanced words in between do not matter, unless what they     *)
(* left at the CATCH itself was no number.  pf_inner.c:128-148, 522-529    *)
THEOREM ThrowsComeBack == Spec => [][throwRestores]_<<m, calls>>
<1>1. ExitInv /\ ExitInv' /\ CatchInv /\ [Next]_vars => CatchInv' /\ [throwRestores]_<<m, calls>>
  BY CatchNext
<1> QED BY <1>1, CatchInit, ExitAlways, PTL DEF Spec

-----------------------------------------------------------------------------
(* Arithmetic: induction, division, powers of 2.                           *)

\* Induction in the form of a set, which the provers can instantiate.
LEMMA SetInduction ==
  ASSUME NEW S, 0 \in S, \A n \in Nat : n \in S => n + 1 \in S
  PROVE  Nat \subseteq S
<1> SUFFICES ASSUME Nat \ S # {} PROVE FALSE
  OBVIOUS
<1> DEFINE T == Nat \ S  R == {ss \in Nat \X Nat : ss[1] < ss[2]}
<1>1. R = OpToRel(<, Nat) BY DEF OpToRel
<1>2. IsWellFoundedOn(R, Nat) BY <1>1, NatLessThanWellFounded
<1>3. PICK x \in T : \A y \in T : ~ (<<y, x>> \in R)
  <2>1. T \subseteq Nat /\ T # {} OBVIOUS
  <2> HIDE DEF T, R
  <2> QED BY <2>1, <1>2, WFMin
<1>4. x \in Nat /\ x # 0 OBVIOUS
<1>5. x - 1 \in Nat BY <1>4
<1>6. x - 1 \notin T
  <2>1. <<x - 1, x>> \in R BY <1>4, <1>5
  <2> QED BY <2>1, <1>3
<1>7. x - 1 + 1 \in S BY <1>5, <1>6
<1> QED BY <1>4, <1>7

\* Quotient and remainder.
LEMMA DivMod ==
  ASSUME NEW x \in Nat, NEW d \in Nat, d > 0
  PROVE  /\ x \div d \in Nat /\ x % d \in 0 .. d - 1
         /\ x = d * (x \div d) + (x % d)
<1>1. x % d \in 0 .. d - 1 OBVIOUS
<1>2. x \div d \in Int OBVIOUS
<1>3. x = d * (x \div d) + (x % d) OBVIOUS
<1>4. x \div d >= 0
  <2> SUFFICES ASSUME x \div d <= -1 PROVE FALSE BY <1>2
  <2> DEFINE q == x \div d  r == x % d
  <2>1. q \in Int /\ q <= -1 /\ r \in 0 .. d - 1 /\ x = d * q + r BY <1>1, <1>2, <1>3
  <2>2. d * q <= -d
    <3> HIDE DEF q
    <3>1. d * (q + 1) <= 0 BY <2>1
    <3> QED BY <3>1, <2>1
  <2> HIDE DEF q, r
  <2> QED BY <2>1, <2>2
<1> QED BY <1>1, <1>2, <1>3, <1>4

LEMMA DivUnique ==
  ASSUME NEW d \in Nat, d > 0, NEW q \in Nat, NEW r \in 0 .. d - 1
  PROVE  (d * q + r) \div d = q /\ (d * q + r) % d = r
OBVIOUS

\* The recursive function exists, on every range from 0.
LEMMA PowerExists ==
  \A n \in Nat : \E g : g = [i \in 0 .. n |-> IF i = 0 THEN 1 ELSE 2 * g[i - 1]]
<1> DEFINE S == {n \in Nat : \E g : g = [i \in 0 .. n |-> IF i = 0 THEN 1 ELSE 2 * g[i - 1]]}
<1>1. 0 \in S
  <2>1. [i \in 0 .. 0 |-> 1] = [i \in 0 .. 0 |-> IF i = 0 THEN 1 ELSE 2 * [j \in 0 .. 0 |-> 1][i - 1]]
    OBVIOUS
  <2> QED BY <2>1
<1>2. ASSUME NEW n \in Nat, n \in S PROVE n + 1 \in S
  <2>1. PICK g : g = [i \in 0 .. n |-> IF i = 0 THEN 1 ELSE 2 * g[i - 1]] BY <1>2
  <2> DEFINE h == [i \in 0 .. n + 1 |-> IF i <= n THEN g[i] ELSE 2 * g[n]]
  <2>2. h = [i \in 0 .. n + 1 |-> IF i = 0 THEN 1 ELSE 2 * h[i - 1]]
    BY <2>1
  <2>3. n + 1 \in Nat OBVIOUS
  <2> HIDE DEF h
  <2> QED BY <2>2, <2>3
<1>3. Nat \subseteq S
  <2> HIDE DEF S
  <2> QED BY <1>1, <1>2, SetInduction
<1> QED BY <1>3

LEMMA PowerStep == Power[0] = 1 /\ \A i \in 1 .. NBITS : Power[i] = 2 * Power[i - 1]
<1>1. Power = [i \in 0 .. NBITS |-> IF i = 0 THEN 1 ELSE 2 * Power[i - 1]]
  BY PowerExists, CellAssumption DEF Power
<1>2. NBITS \in Nat /\ NBITS > 0 BY CellAssumption
<1>3. Power[0] = 1
  <2>1. 0 \in 0 .. NBITS BY <1>2
  <2> QED BY <1>1, <2>1
<1>4. ASSUME NEW i \in 1 .. NBITS PROVE Power[i] = 2 * Power[i - 1]
  <2>1. i \in 0 .. NBITS /\ i # 0 BY <1>2
  <2> QED BY <1>1, <2>1
<1> QED BY <1>3, <1>4

LEMMA PowerPositive == \A i \in 0 .. NBITS : Power[i] \in Nat /\ Power[i] > 0
<1> DEFINE S == {n \in Nat : n <= NBITS => Power[n] \in Nat /\ Power[n] > 0}
<1>1. 0 \in S BY PowerStep
<1>2. ASSUME NEW n \in Nat, n \in S PROVE n + 1 \in S
  <2> SUFFICES ASSUME n + 1 <= NBITS PROVE Power[n + 1] \in Nat /\ Power[n + 1] > 0
    OBVIOUS
  <2>1. Power[n] \in Nat /\ Power[n] > 0 BY <1>2, CellAssumption
  <2>2. Power[n + 1] = 2 * Power[n] BY PowerStep, CellAssumption
  <2> QED BY <2>1, <2>2
<1>3. Nat \subseteq S
  <2> HIDE DEF S
  <2> QED BY <1>1, <1>2, SetInduction
<1> QED BY <1>3, CellAssumption

LEMMA PowerSum == \A i \in 0 .. NBITS, j \in 0 .. NBITS : i + j <= NBITS => Power[i + j] = Power[i] * Power[j]
<1> DEFINE S == {n \in Nat : \A j \in 0 .. NBITS : n + j <= NBITS => Power[n + j] = Power[n] * Power[j]}
<1>1. 0 \in S BY PowerStep, PowerPositive
<1>2. ASSUME NEW n \in Nat, n \in S PROVE n + 1 \in S
  <2> SUFFICES ASSUME NEW j \in 0 .. NBITS, n + 1 + j <= NBITS PROVE Power[n + 1 + j] = Power[n + 1] * Power[j]
    OBVIOUS
  <2>1. NBITS \in Nat /\ n + 1 \in 1 .. NBITS /\ n + 1 + j \in 1 .. NBITS /\ n \in 0 .. NBITS /\ n + j \in 0 .. NBITS
    BY CellAssumption
  <2>2. Power[n + 1] = 2 * Power[n]
    <3>1. Power[n + 1] = 2 * Power[n + 1 - 1] BY <2>1, PowerStep
    <3> QED BY <3>1
  <2>3. Power[n + 1 + j] = 2 * Power[n + j]
    <3>1. Power[n + 1 + j] = 2 * Power[n + 1 + j - 1] BY <2>1, PowerStep
    <3>2. n + 1 + j - 1 = n + j BY <2>1
    <3> QED BY <3>1, <3>2
  <2>4. Power[n + j] = Power[n] * Power[j] BY <1>2, <2>1
  <2>5. Power[n] \in Nat /\ Power[j] \in Nat BY <2>1, PowerPositive
  <2> QED BY <2>2, <2>3, <2>4, <2>5
<1>3. Nat \subseteq S
  <2> HIDE DEF S
  <2> QED BY <1>1, <1>2, SetInduction
<1> QED BY <1>3, CellAssumption

-----------------------------------------------------------------------------
(* Cells.                                                                  *)

LEMMA CellFacts ==
  /\ HIGH_BIT \in Nat /\ HIGH_BIT > 0 /\ W = 2 * HIGH_BIT /\ W = Power[NBITS]
  /\ HALF \in Nat /\ HALF > 0 /\ HALF * HALF = W
<1>1. NBITS \in Nat /\ NBITS >= 2 /\ NBITS - 1 \in 0 .. NBITS /\ NBITS \in 1 .. NBITS
  BY CellAssumption
<1>2. HNBITS \in 0 .. NBITS /\ HNBITS + HNBITS = NBITS BY CellAssumption, <1>1 DEF HNBITS
<1>3. HIGH_BIT \in Nat /\ HIGH_BIT > 0 /\ HALF \in Nat /\ HALF > 0
  BY <1>1, <1>2, PowerPositive DEF HIGH_BIT, HALF
<1>4. W = 2 * HIGH_BIT /\ W = Power[NBITS] BY <1>1, PowerStep DEF W, HIGH_BIT
<1>5. HALF * HALF = W
  <2>1. Power[HNBITS + HNBITS] = Power[HNBITS] * Power[HNBITS] BY <1>1, <1>2, PowerSum
  <2> QED BY <2>1, <1>2, <1>4 DEF HALF
<1> QED BY <1>3, <1>4, <1>5

LEMMA ModUnique ==
  ASSUME NEW d \in Nat, d > 0, NEW n \in Int, NEW q \in Int, n - d * q \in 0 .. d - 1
  PROVE  n % d = n - d * q /\ n \div d = q
<1> DEFINE p == n \div d  r == n % d
<1>1. p \in Int /\ r \in 0 .. d - 1 /\ n = d * p + r OBVIOUS
<1>2. p = q
  <2> HIDE DEF p, r
  <2>1. d * (p - q) < d /\ d * (q - p) < d BY <1>1
  <2>2. ~(p - q >= 1)
    <3> SUFFICES ASSUME p - q >= 1 PROVE d * (p - q) >= d BY <2>1, <1>1
    <3> DEFINE k == p - q - 1
    <3>1. k \in Nat /\ d * k >= 0 BY <1>1
    <3>2. d * (k + 1) = d * k + d BY <1>1
    <3> QED BY <3>1, <3>2, <1>1
  <2>3. ~(q - p >= 1)
    <3> SUFFICES ASSUME q - p >= 1 PROVE d * (q - p) >= d BY <2>1, <1>1
    <3> DEFINE k == q - p - 1
    <3>1. k \in Nat /\ d * k >= 0 BY <1>1
    <3>2. d * (k + 1) = d * k + d BY <1>1
    <3> QED BY <3>1, <3>2, <1>1
  <2> QED BY <2>2, <2>3, <1>1
<1> QED BY <1>1, <1>2

LEMMA WrapExists ==
  ASSUME NEW n \in Int
  PROVE  Wrap(n) \in Cell /\ \E q \in Int : n = W * q + Wrap(n)
<1>1. W \in Nat /\ W > 0 BY CellFacts
<1>2. n % W \in 0 .. W - 1 /\ n \div W \in Int /\ n = W * (n \div W) + (n % W) BY <1>1
<1> QED BY <1>2 DEF Wrap, Cell
\* A double is a number below W * W, and each of these is one double's.
LEMMA DoubleRange ==
  ASSUME NEW lo \in Cell, NEW hi \in Cell
  PROVE  Double(lo, hi) \in 0 .. W * W - 1
<1>1. W \in Nat /\ W > 0 BY CellFacts
<1>2. lo \in 0 .. W - 1 /\ hi \in 0 .. W - 1 BY DEF Cell
<1>3. W * hi >= 0 /\ W * (W - 1 - hi) >= 0 BY <1>1, <1>2
<1>4. W * (W - 1 - hi) = W * W - W - W * hi BY <1>1, <1>2
<1>5. W * hi \in Int /\ W * W \in Int BY <1>1, <1>2
<1> QED BY <1>1, <1>2, <1>3, <1>4, <1>5 DEF Double

(* D+ carries from the low cells into the high ones: it adds doubles       *)
(* modulo W * W, whatever the width of a cell.  pf_inner.c:656-672         *)
THEOREM DPlusExact ==
  \A al, ah, bl, bh \in Cell :
    LET s == DPlus(al, ah, bl, bh)
    IN /\ s[1] \in Cell /\ s[2] \in Cell
       /\ Double(s[1], s[2]) = (Double(al, ah) + Double(bl, bh)) % (W * W)
<1> SUFFICES ASSUME NEW al \in Cell, NEW ah \in Cell, NEW bl \in Cell, NEW bh \in Cell
             PROVE  /\ DPlus(al, ah, bl, bh)[1] \in Cell /\ DPlus(al, ah, bl, bh)[2] \in Cell
                    /\ Double(DPlus(al, ah, bl, bh)[1], DPlus(al, ah, bl, bh)[2])
                         = (Double(al, ah) + Double(bl, bh)) % (W * W)
  OBVIOUS
<1> DEFINE sl == Wrap(al + bl)
           carry == IF sl < bl THEN 1 ELSE 0
           sh == Wrap(carry + ah + bh)
<1>1. W \in Nat /\ W > 0 BY CellFacts
<1>2. al \in 0 .. W - 1 /\ ah \in 0 .. W - 1 /\ bl \in 0 .. W - 1 /\ bh \in 0 .. W - 1 BY DEF Cell
<1>3. DPlus(al, ah, bl, bh) = <<sl, sh>> BY DEF DPlus
<1>4. carry \in 0 .. 1 /\ sl \in Cell /\ al + bl = sl + W * carry
  <2>1. CASE al + bl < W
    <3>1. sl = al + bl BY <1>1, <1>2, <2>1 DEF Wrap
    <3> QED BY <1>1, <1>2, <2>1, <3>1 DEF Cell
  <2>2. CASE al + bl >= W
    <3>1. al + bl - W * 1 \in 0 .. W - 1 BY <1>1, <1>2, <2>2
    <3>2. sl = al + bl - W * 1 BY <1>1, <1>2, <3>1, ModUnique DEF Wrap
    <3> QED BY <1>1, <1>2, <3>1, <3>2 DEF Cell
  <2> QED BY <1>1, <1>2, <2>1, <2>2
<1> HIDE DEF sl, carry
<1>5. PICK q \in Int : carry + ah + bh = W * q + sh
  <2>1. carry + ah + bh \in Int BY <1>1, <1>2, <1>4
  <2> QED BY <2>1, WrapExists
<1>6. sh \in Cell BY <1>1, <1>2, <1>4, WrapExists
<1> HIDE DEF sh
<1>7. (Double(al, ah) + Double(bl, bh)) - (W * W) * q = Double(sl, sh)
  <2>1. sh = carry + ah + bh - W * q /\ sl = al + bl - W * carry
    BY <1>1, <1>2, <1>4, <1>5, <1>6 DEF Cell
  <2>2. W * sh = W * carry + W * ah + W * bh - (W * W) * q BY <1>1, <1>2, <1>4, <2>1
  <2>3. W * carry \in Int /\ W * ah \in Int /\ W * bh \in Int /\ (W * W) * q \in Int BY <1>1, <1>2, <1>4
  <2> QED BY <1>1, <1>2, <1>4, <2>1, <2>2, <2>3 DEF Double
<1>8. Double(sl, sh) \in 0 .. W * W - 1 BY <1>4, <1>6, DoubleRange
<1>9. W * W \in Nat /\ W * W > 0 /\ Double(al, ah) + Double(bl, bh) \in Int BY <1>1, <1>2 DEF Double
<1>10. (Double(al, ah) + Double(bl, bh)) % (W * W) = Double(sl, sh)
  <2> DEFINE n == Double(al, ah) + Double(bl, bh)  d == W * W  r == Double(sl, sh)
  <2>1. d \in Nat /\ d > 0 /\ n \in Int BY <1>9
  <2>2. n - d * q = r BY <1>7
  <2>3. r \in 0 .. d - 1 BY <1>8
  <2> HIDE DEF n, d, r
  <2>4. n % d = r BY <2>1, <2>2, <2>3, ModUnique
  <2> QED BY <2>4 DEF n, d, r
<1> QED BY <1>3, <1>4, <1>6, <1>10

(* D- borrows from the high cell: it subtracts doubles modulo W * W.       *)
(* pf_inner.c:674-690                                                      *)
THEOREM DMinusExact ==
  \A al, ah, bl, bh \in Cell :
    LET s == DMinus(al, ah, bl, bh)
    IN /\ s[1] \in Cell /\ s[2] \in Cell
       /\ Double(s[1], s[2]) = (Double(al, ah) - Double(bl, bh)) % (W * W)
<1> SUFFICES ASSUME NEW al \in Cell, NEW ah \in Cell, NEW bl \in Cell, NEW bh \in Cell
             PROVE  /\ DMinus(al, ah, bl, bh)[1] \in Cell /\ DMinus(al, ah, bl, bh)[2] \in Cell
                    /\ Double(DMinus(al, ah, bl, bh)[1], DMinus(al, ah, bl, bh)[2])
                         = (Double(al, ah) - Double(bl, bh)) % (W * W)
  OBVIOUS
<1> DEFINE borrow == IF al < bl THEN 1 ELSE 0
           sl == Wrap(al - bl)
           sh == Wrap(ah - bh - borrow)
<1>1. W \in Nat /\ W > 0 BY CellFacts
<1>2. al \in 0 .. W - 1 /\ ah \in 0 .. W - 1 /\ bl \in 0 .. W - 1 /\ bh \in 0 .. W - 1 BY DEF Cell
<1>3. DMinus(al, ah, bl, bh) = <<sl, sh>> BY DEF DMinus
<1>4. borrow \in 0 .. 1 /\ sl \in Cell /\ sl = al - bl + W * borrow
  <2>1. CASE al >= bl
    <3>1. sl = al - bl BY <1>1, <1>2, <2>1 DEF Wrap
    <3> QED BY <1>1, <1>2, <2>1, <3>1 DEF Cell
  <2>2. CASE al < bl
    <3>1. al - bl - W * (-1) \in 0 .. W - 1 BY <1>1, <1>2, <2>2
    <3>2. sl = al - bl - W * (-1) BY <1>1, <1>2, <3>1, ModUnique DEF Wrap
    <3> QED BY <1>1, <1>2, <2>2, <3>1, <3>2 DEF Cell
  <2> QED BY <1>1, <1>2, <2>1, <2>2
<1> HIDE DEF sl, borrow
<1>5. PICK q \in Int : ah - bh - borrow = W * q + sh
  <2>1. ah - bh - borrow \in Int BY <1>1, <1>2, <1>4
  <2> QED BY <2>1, WrapExists
<1>6. sh \in Cell BY <1>1, <1>2, <1>4, WrapExists
<1> HIDE DEF sh
<1>7. Double(al, ah) - Double(bl, bh) - (W * W) * q = Double(sl, sh)
  <2>1. sh = ah - bh - borrow - W * q
    BY <1>1, <1>2, <1>4, <1>5, <1>6 DEF Cell
  <2>2. W * sh = W * ah - W * bh - W * borrow - (W * W) * q BY <1>1, <1>2, <1>4, <2>1
  <2>3. W * borrow \in Int /\ W * ah \in Int /\ W * bh \in Int /\ (W * W) * q \in Int BY <1>1, <1>2, <1>4
  <2> QED BY <1>1, <1>2, <1>4, <2>1, <2>2, <2>3 DEF Double
<1>8. Double(sl, sh) \in 0 .. W * W - 1 BY <1>4, <1>6, DoubleRange
<1>9. W * W \in Nat /\ W * W > 0 /\ Double(al, ah) - Double(bl, bh) \in Int BY <1>1, <1>2 DEF Double
<1>10. (Double(al, ah) - Double(bl, bh)) % (W * W) = Double(sl, sh)
  <2> DEFINE n == Double(al, ah) - Double(bl, bh)  d == W * W  r == Double(sl, sh)
  <2>1. d \in Nat /\ d > 0 /\ n \in Int BY <1>9
  <2>2. n - d * q = r BY <1>7
  <2>3. r \in 0 .. d - 1 BY <1>8
  <2> HIDE DEF n, d, r
  <2>4. n % d = r BY <2>1, <2>2, <2>3, ModUnique
  <2> QED BY <2>4 DEF n, d, r
<1> QED BY <1>3, <1>4, <1>6, <1>10

\* The halves of a number.
LEMMA Halves ==
  ASSUME NEW n \in Nat
  PROVE  /\ UPPER_HALF(n) \in Nat /\ LOWER_HALF(n) \in 0 .. HALF - 1
         /\ n = HALF * UPPER_HALF(n) + LOWER_HALF(n)
<1>1. HALF \in Nat /\ HALF > 0 BY CellFacts
<1>2. n \div HALF \in Nat /\ n % HALF \in 0 .. HALF - 1 /\ n = HALF * (n \div HALF) + (n % HALF)
  BY <1>1, DivMod
<1> QED BY <1>2 DEF UPPER_HALF, LOWER_HALF

(* UM*, by halves of cells, leaves the whole product of two cells.         *)
(* pf_inner.c:704-742                                                      *)
THEOREM UMTimesExact ==
  \A a, b \in Cell :
    LET p == UMTimes(a, b)
    IN p[1] \in Cell /\ p[2] \in Cell /\ Double(p[1], p[2]) = a * b
<1> SUFFICES ASSUME NEW a \in Cell, NEW b \in Cell
             PROVE  /\ UMTimes(a, b)[1] \in Cell /\ UMTimes(a, b)[2] \in Cell
                    /\ Double(UMTimes(a, b)[1], UMTimes(a, b)[2]) = a * b
  OBVIOUS
<1> DEFINE ahi == UPPER_HALF(a)  alo == LOWER_HALF(a)
           bhi == UPPER_HALF(b)  blo == LOWER_HALF(b)
           m1 == ahi * blo  m2 == alo * bhi  low == alo * blo
           lo == LOWER_HALF(m1) + LOWER_HALF(m2) + UPPER_HALF(low)
           hi == ahi * bhi + UPPER_HALF(m1) + UPPER_HALF(m2) + UPPER_HALF(lo)
           first == LOWER_HALF(lo) * HALF + LOWER_HALF(low)
<1>0. UMTimes(a, b) = <<first, Wrap(hi)>> BY DEF UMTimes
<1>1. HALF \in Nat /\ HALF > 0 /\ HALF * HALF = W /\ W \in Nat /\ W > 0 BY CellFacts
<1>2. a \in Nat /\ b \in Nat /\ a <= W - 1 /\ b <= W - 1 BY <1>1 DEF Cell
<1>3. ahi \in Nat /\ alo \in Nat /\ a = HALF * ahi + alo BY <1>2, Halves, <1>1
<1>4. bhi \in Nat /\ blo \in Nat /\ b = HALF * bhi + blo BY <1>2, Halves, <1>1
<1> HIDE DEF ahi, alo, bhi, blo
<1>5. m1 \in Nat /\ m2 \in Nat /\ low \in Nat /\ ahi * bhi \in Nat BY <1>3, <1>4
<1>6. a * b = W * (ahi * bhi) + HALF * m1 + HALF * m2 + low
  <2>1. a * b = (HALF * ahi + alo) * (HALF * bhi + blo) BY <1>3, <1>4
  <2>2. (HALF * ahi + alo) * (HALF * bhi + blo)
          = (HALF * HALF) * (ahi * bhi) + HALF * (ahi * blo) + HALF * (alo * bhi) + alo * blo
    BY <1>1, <1>3, <1>4
  <2> QED BY <2>1, <2>2, <1>1
<1> HIDE DEF m1, m2, low
<1>7. UPPER_HALF(m1) \in Nat /\ LOWER_HALF(m1) \in 0 .. HALF - 1 /\ m1 = HALF * UPPER_HALF(m1) + LOWER_HALF(m1)
  BY <1>1, <1>5, Halves
<1>8. UPPER_HALF(m2) \in Nat /\ LOWER_HALF(m2) \in 0 .. HALF - 1 /\ m2 = HALF * UPPER_HALF(m2) + LOWER_HALF(m2)
  BY <1>1, <1>5, Halves
<1>9. UPPER_HALF(low) \in Nat /\ LOWER_HALF(low) \in 0 .. HALF - 1 /\ low = HALF * UPPER_HALF(low) + LOWER_HALF(low)
  BY <1>1, <1>5, Halves
<1>10. lo \in Nat BY <1>7, <1>8, <1>9, <1>1
<1>11. UPPER_HALF(lo) \in Nat /\ LOWER_HALF(lo) \in 0 .. HALF - 1 /\ lo = HALF * UPPER_HALF(lo) + LOWER_HALF(lo)
  BY <1>1, <1>10, Halves
<1>12. hi \in Nat BY <1>5, <1>7, <1>8, <1>11
<1>13. a * b = W * hi + first
  <2> DEFINE u1 == UPPER_HALF(m1)  l1 == LOWER_HALF(m1)  u2 == UPPER_HALF(m2)  l2 == LOWER_HALF(m2)
             u == UPPER_HALF(low)  l == LOWER_HALF(low)  x == UPPER_HALF(lo)  y == LOWER_HALF(lo)
             h == ahi * bhi
  <2>1. u1 \in Nat /\ l1 \in Nat /\ u2 \in Nat /\ l2 \in Nat /\ u \in Nat /\ l \in Nat /\ x \in Nat /\ y \in Nat /\ h \in Nat
    BY <1>1, <1>5, <1>7, <1>8, <1>9, <1>11
  <2>2. HALF * m1 = W * u1 + HALF * l1
    <3>1. HALF * (HALF * u1 + l1) = (HALF * HALF) * u1 + HALF * l1 BY <1>1, <2>1
    <3> QED BY <3>1, <1>1, <1>7
  <2>3. HALF * m2 = W * u2 + HALF * l2
    <3>1. HALF * (HALF * u2 + l2) = (HALF * HALF) * u2 + HALF * l2 BY <1>1, <2>1
    <3> QED BY <3>1, <1>1, <1>8
  <2>4. HALF * l1 + HALF * l2 + HALF * u = W * x + HALF * y
    <3>1. l1 + l2 + u = HALF * x + y BY <1>11
    <3>2. HALF * (HALF * x + y) = (HALF * HALF) * x + HALF * y BY <1>1, <2>1
    <3>3. HALF * (l1 + l2 + u) = HALF * l1 + HALF * l2 + HALF * u
      <4> HIDE DEF l1, l2, u
      <4> QED BY <1>1, <2>1
    <3> QED BY <3>1, <3>2, <3>3, <1>1
  <2>5. low = HALF * u + l BY <1>9
  <2>6. hi = h + u1 + u2 + x /\ first = y * HALF + l OBVIOUS
  <2>7. a * b = W * h + HALF * m1 + HALF * m2 + low BY <1>6
  <2> HIDE DEF u1, l1, u2, l2, u, l, x, y, h, hi, first
  <2>8. W * hi = W * h + W * u1 + W * u2 + W * x BY <1>1, <2>1, <2>6
  <2>9. /\ W * h \in Int /\ W * u1 \in Int /\ W * u2 \in Int /\ W * x \in Int
        /\ HALF * l1 \in Int /\ HALF * l2 \in Int /\ HALF * u \in Int /\ HALF * y \in Int /\ y * HALF = HALF * y
    BY <1>1, <2>1
  <2> QED BY <2>1, <2>2, <2>3, <2>4, <2>5, <2>6, <2>7, <2>8, <2>9, <1>1
<1>14. first \in 0 .. W - 1
  <2> DEFINE y == LOWER_HALF(lo)  l == LOWER_HALF(low)
  <2>1. y \in 0 .. HALF - 1 /\ l \in 0 .. HALF - 1 BY <1>9, <1>11
  <2> HIDE DEF y, l
  <2>2. y * HALF >= 0 /\ (HALF - 1 - y) * HALF >= 0 BY <1>1, <2>1
  <2>3. (HALF - 1 - y) * HALF = HALF * HALF - HALF - y * HALF /\ y * HALF \in Int BY <1>1, <2>1
  <2>4. y * HALF + l \in 0 .. W - 1 BY <1>1, <2>1, <2>2, <2>3
  <2> QED BY <2>4 DEF y, l
<1> HIDE DEF first, hi
<1>15. a * b < W * W
  <2>1. a * b <= a * W BY <1>1, <1>2
  <2>2. a * W <= (W - 1) * W BY <1>1, <1>2
  <2>3. (W - 1) * W = W * W - W BY <1>1
  <2>4. a * b \in Int /\ a * W \in Int /\ W * W \in Int BY <1>1, <1>2
  <2> QED BY <2>1, <2>2, <2>3, <2>4, <1>1
<1>16. hi < W
  <2> SUFFICES ASSUME hi >= W PROVE FALSE BY <1>12, <1>1
  <2>1. W * hi >= W * W BY <1>1, <1>12
  <2> QED BY <2>1, <1>1, <1>12, <1>13, <1>14, <1>15
<1>17. Wrap(hi) = hi BY <1>1, <1>12, <1>16 DEF Wrap
<1> QED BY <1>0, <1>1, <1>12, <1>13, <1>14, <1>16, <1>17 DEF Cell, Double

\* The magnitude of a cell.
LEMMA Magnitude ==
  ASSUME NEW x \in Cell
  PROVE  \E n \in 0 .. HIGH_BIT :
           /\ (IF Negative(x) THEN Minus(x) ELSE x) = n
           /\ Signed(x) = (IF Negative(x) THEN -n ELSE n)
<1>1. W \in Nat /\ W > 0 /\ HIGH_BIT \in Nat /\ HIGH_BIT > 0 /\ W = 2 * HIGH_BIT BY CellFacts
<1>2. x \in 0 .. W - 1 BY DEF Cell
<1>3. CASE ~Negative(x) BY <1>1, <1>2, <1>3 DEF Negative, Signed
<1>4. CASE Negative(x)
  <2>1. x >= HIGH_BIT BY <1>4 DEF Negative
  <2>2. -x - W * (-1) \in 0 .. W - 1 BY <1>1, <1>2, <2>1
  <2>3. Minus(x) = W - x BY <1>1, <1>2, <2>2, ModUnique DEF Minus, Wrap
  <2>4. W - x \in 0 .. HIGH_BIT /\ Signed(x) = -(W - x) BY <1>1, <1>2, <1>4, <2>1 DEF Signed
  <2> QED BY <1>4, <2>3, <2>4
<1> QED BY <1>3, <1>4

(* M* leaves the whole product of two signed cells, also of the most       *)
(* negative ones.  pf_inner.c:744-799                                      *)
THEOREM MTimesExact ==
  \A a, b \in Cell :
    LET p == MTimes(a, b)
    IN p[1] \in Cell /\ p[2] \in Cell /\ SignedDouble(p[1], p[2]) = Signed(a) * Signed(b)
<1> SUFFICES ASSUME NEW a \in Cell, NEW b \in Cell
             PROVE  /\ MTimes(a, b)[1] \in Cell /\ MTimes(a, b)[2] \in Cell
                    /\ SignedDouble(MTimes(a, b)[1], MTimes(a, b)[2]) = Signed(a) * Signed(b)
  OBVIOUS
<1> DEFINE ma == IF Negative(a) THEN Minus(a) ELSE a
           mb == IF Negative(b) THEN Minus(b) ELSE b
           p == UMTimes(ma, mb)
           lo == Wrap((W - 1 - p[1]) + 1)
           hi == Wrap((W - 1 - p[2]) + (IF lo = 0 THEN 1 ELSE 0))
<1>0. MTimes(a, b) = IF SignsDiffer(a, b) THEN <<lo, hi>> ELSE p BY DEF MTimes
<1>1. W \in Nat /\ W > 0 /\ HIGH_BIT \in Nat /\ HIGH_BIT > 0 /\ W = 2 * HIGH_BIT BY CellFacts
<1>2. ma \in 0 .. HIGH_BIT /\ Signed(a) = (IF Negative(a) THEN -ma ELSE ma) BY Magnitude
<1>3. mb \in 0 .. HIGH_BIT /\ Signed(b) = (IF Negative(b) THEN -mb ELSE mb) BY Magnitude
<1> HIDE DEF ma, mb
<1>4. ma \in Cell /\ mb \in Cell BY <1>1, <1>2, <1>3 DEF Cell
<1>5. p[1] \in Cell /\ p[2] \in Cell /\ Double(p[1], p[2]) = ma * mb BY <1>4, UMTimesExact
<1> DEFINE x == p[1]  y == p[2]
<1>6. x \in 0 .. W - 1 /\ y \in 0 .. W - 1 /\ x + W * y = ma * mb BY <1>5 DEF Cell, Double
<1> HIDE DEF p
<1>7. 2 * y <= HIGH_BIT
  <2> SUFFICES ASSUME 2 * y > HIGH_BIT PROVE FALSE
    <3> HIDE DEF y
    <3> QED BY <1>1, <1>6
  <2> HIDE DEF x, y
  <2>1. ma * mb <= HIGH_BIT * HIGH_BIT
    <3>1. ma * mb <= ma * HIGH_BIT BY <1>1, <1>2, <1>3
    <3>2. ma * HIGH_BIT <= HIGH_BIT * HIGH_BIT BY <1>1, <1>2, <1>3
    <3>3. ma * mb \in Int /\ ma * HIGH_BIT \in Int /\ HIGH_BIT * HIGH_BIT \in Int BY <1>1, <1>2, <1>3
    <3> QED BY <3>1, <3>2, <3>3
  <2>2. W * y = HIGH_BIT * (2 * y) BY <1>1, <1>6
  <2>3. HIGH_BIT * (2 * y) >= HIGH_BIT * (HIGH_BIT + 1) BY <1>1, <1>6
  <2>4. HIGH_BIT * (HIGH_BIT + 1) = HIGH_BIT * HIGH_BIT + HIGH_BIT BY <1>1
  <2>5. ma * mb \in Int /\ W * y \in Int /\ HIGH_BIT * HIGH_BIT \in Int BY <1>1, <1>2, <1>3, <1>6
  <2> QED BY <2>1, <2>2, <2>3, <2>4, <2>5, <1>1, <1>6
<1>8. CASE ~SignsDiffer(a, b)
  <2>1. SignedDouble(x, y) = x + W * y
    <3> HIDE DEF x, y
    <3>1. ~Negative(y) BY <1>1, <1>6, <1>7 DEF Negative
    <3> QED BY <3>1 DEF SignedDouble, Signed
  <2>2. Signed(a) * Signed(b) = ma * mb BY <1>1, <1>2, <1>3, <1>8 DEF SignsDiffer
  <2> QED BY <1>0, <1>5, <1>6, <1>8, <2>1, <2>2
<1>9. CASE SignsDiffer(a, b)
  <2>1. Signed(a) * Signed(b) = -(ma * mb)
    <3>1. (-ma) * mb = -(ma * mb) /\ ma * (-mb) = -(ma * mb) BY <1>1, <1>2, <1>3
    <3>2. CASE Negative(a) /\ ~Negative(b) BY <1>2, <1>3, <3>1, <3>2
    <3>3. CASE ~Negative(a) /\ Negative(b) BY <1>2, <1>3, <3>1, <3>3
    <3> QED BY <1>9, <3>2, <3>3 DEF SignsDiffer, Negative
  <2>2. SignedDouble(lo, hi) = -(x + W * y)
    <3>0. lo = Wrap((W - 1 - x) + 1) /\ hi = Wrap((W - 1 - y) + (IF lo = 0 THEN 1 ELSE 0)) OBVIOUS
    <3> HIDE DEF x, y, lo, hi
    <3>1. CASE x = 0 /\ y = 0
      <4>1. lo = 0
        <5>1. (W - 1 - x) + 1 - W * 1 = 0 BY <1>1, <3>1
        <5> QED BY <3>0, <5>1, <1>1, <3>1 DEF Wrap
      <4>2. hi = 0 BY <3>0, <4>1, <1>1, <3>1 DEF Wrap
      <4> QED BY <1>1, <3>1, <4>1, <4>2 DEF SignedDouble, Signed, Negative
    <3>2. CASE x = 0 /\ y # 0
      <4>1. lo = 0 BY <3>0, <1>1, <3>2 DEF Wrap
      <4>2. hi = W - y BY <3>0, <4>1, <1>1, <1>6, <3>2 DEF Wrap
      <4>3. Signed(hi) = -y BY <4>2, <1>1, <1>6, <1>7 DEF Signed, Negative
      <4>4. W * (-y) = -(W * y) BY <1>1, <1>6
      <4> QED BY <1>1, <1>6, <3>2, <4>1, <4>3, <4>4 DEF SignedDouble
    <3>3. CASE x # 0
      <4>1. lo = W - x BY <3>0, <1>1, <1>6, <3>3 DEF Wrap
      <4>2. hi = W - 1 - y BY <3>0, <4>1, <1>1, <1>6, <3>3 DEF Wrap
      <4>3. Signed(hi) = -1 - y BY <4>2, <1>1, <1>6, <1>7 DEF Signed, Negative
      <4>4. W * (-1 - y) = -W - W * y BY <1>1, <1>6
      <4>5. W * y \in Int BY <1>1, <1>6
      <4> QED BY <1>1, <1>6, <4>1, <4>3, <4>4, <4>5 DEF SignedDouble
    <3> QED BY <3>1, <3>2, <3>3
  <2>3. lo \in Cell /\ hi \in Cell
    <3>1. (W - 1 - x) + 1 \in Int /\ W - 1 - y \in Int BY <1>1, <1>6
    <3>2. lo \in Cell BY <3>1, WrapExists
    <3> DEFINE k == (W - 1 - y) + (IF lo = 0 THEN 1 ELSE 0)
    <3>3. k \in Int BY <3>1
    <3>4. hi = Wrap(k) OBVIOUS
    <3> HIDE DEF k, lo, hi
    <3> QED BY <3>2, <3>3, <3>4, WrapExists
  <2> QED BY <1>0, <1>6, <1>9, <2>1, <2>2, <2>3
<1> QED BY <1>8, <1>9

(* The two comparisons of signs in +LOOP find the crossing of the limit,   *)
(* and nothing else, for every index, limit and step, of every width.      *)
(* pf_inner.c:1473-1499                                                    *)
THEOREM LoopsEndWhereTheyShould ==
  \A index, limit, delta \in Cell : LimitCrossed(index, limit, delta) <=> Crosses(index, limit, delta)
<1> SUFFICES ASSUME NEW index \in Cell, NEW limit \in Cell, NEW delta \in Cell
             PROVE  LimitCrossed(index, limit, delta) <=> Crosses(index, limit, delta)
  OBVIOUS
<1> DEFINE diff == Wrap(index - limit)  e == Signed(delta)
<1>1. W \in Nat /\ W > 0 /\ HIGH_BIT \in Nat /\ HIGH_BIT > 0 /\ W = 2 * HIGH_BIT BY CellFacts
<1>2. index \in 0 .. W - 1 /\ limit \in 0 .. W - 1 /\ delta \in 0 .. W - 1 BY DEF Cell
<1>3. PICK q \in Int : index - limit = W * q + diff
  <2>1. index - limit \in Int BY <1>1, <1>2
  <2> QED BY <2>1, WrapExists
<1>4. diff \in 0 .. W - 1
  <2>1. index - limit \in Int BY <1>1, <1>2
  <2> QED BY <2>1, WrapExists DEF Cell
<1>5. /\ LimitCrossed(index, limit, delta)
           <=> SignsDiffer(diff, Wrap(diff + delta)) /\ SignsDiffer(diff, delta)
  BY DEF LimitCrossed
<1>6. Crosses(index, limit, delta)
        <=> \/ \E k \in 1 .. e : Wrap(index + k) = limit
            \/ \E k \in 0 .. -e - 1 : Wrap(index - k) = limit
  BY DEF Crosses
\* Whether a count reaches the limit is seen in the difference.
<1>7. ASSUME NEW k \in Int
      PROVE  Wrap(index + k) = limit <=> \E j \in Int : diff + k = W * j
  <2> HIDE DEF diff
  <2>1. ASSUME Wrap(index + k) = limit PROVE \E j \in Int : diff + k = W * j
    <3>1. index + k \in Int BY <1>2
    <3>2. PICK p \in Int : index + k = W * p + limit BY <3>1, <2>1, WrapExists
    <3>3. diff + k = W * p - W * q BY <1>1, <1>2, <1>3, <1>4, <3>2
    <3>4. diff + k = W * (p - q) /\ p - q \in Int BY <3>3, <1>1
    <3> QED BY <3>4
  <2>2. ASSUME NEW j \in Int, diff + k = W * j PROVE Wrap(index + k) = limit
    <3>1. (index + k) - W * (q + j) = limit
      <4>1. W * (q + j) = W * q + W * j /\ W * q \in Int /\ W * j \in Int BY <1>1
      <4> QED BY <4>1, <2>2, <1>1, <1>2, <1>3, <1>4
    <3> QED BY <3>1, <1>1, <1>2, ModUnique DEF Wrap
  <2> QED BY <2>1, <2>2
<1> HIDE DEF diff
<1>8. CASE ~Negative(delta)
  <2>1. e = delta /\ e \in 0 .. HIGH_BIT - 1 BY <1>1, <1>2, <1>8 DEF Signed, Negative
  <2>2. LimitCrossed(index, limit, delta) <=> diff + e >= W
    <3>1. CASE diff + e < W
      <4>1. Wrap(diff + delta) = diff + e BY <1>1, <1>4, <2>1, <3>1 DEF Wrap
      <4> QED BY <1>1, <1>4, <1>5, <1>8, <2>1, <3>1, <4>1 DEF SignsDiffer, Negative
    <3>2. CASE diff + e >= W
      <4>1. (diff + delta) - W * 1 \in 0 .. W - 1 BY <1>1, <1>4, <2>1, <3>2
      <4>2. Wrap(diff + delta) = diff + e - W BY <1>1, <1>4, <2>1, <4>1, ModUnique DEF Wrap
      <4> QED BY <1>1, <1>4, <1>5, <1>8, <2>1, <3>2, <4>2 DEF SignsDiffer, Negative
    <3> QED BY <3>1, <3>2, <1>1, <1>4, <2>1
  <2> HIDE DEF e
  <2>3. ASSUME diff + e >= W PROVE \E k \in 1 .. e : Wrap(index + k) = limit
    <3>1. W - diff \in 1 .. e /\ W - diff \in Int BY <1>1, <1>4, <2>1, <2>3
    <3>2. diff + (W - diff) = W * 1 BY <1>1, <1>4
    <3>3. Wrap(index + (W - diff)) = limit BY <3>1, <3>2, <1>7
    <3> QED BY <3>1, <3>3
  <2>4. ASSUME NEW k \in 1 .. e, Wrap(index + k) = limit PROVE diff + e >= W
    <3>1. k \in Int /\ k >= 1 /\ k <= e BY <2>1
    <3>2. PICK j \in Int : diff + k = W * j BY <3>1, <2>4, <1>7
    <3>3. j >= 1
      <4> SUFFICES ASSUME j <= 0 PROVE FALSE OBVIOUS
      <4>1. W * j <= 0 BY <1>1
      <4> QED BY <4>1, <3>1, <3>2, <1>4, <1>1
    <3>4. W * j >= W BY <3>3, <1>1
    <3> QED BY <3>1, <3>2, <3>4, <1>1, <1>4, <2>1
  <2>5. 0 .. -e - 1 = {} BY <2>1, <1>1
  <2> QED BY <1>6, <2>2, <2>3, <2>4, <2>5
<1>9. CASE Negative(delta)
  <2>1. delta = W + e /\ e \in -HIGH_BIT .. -1 BY <1>1, <1>2, <1>9 DEF Signed, Negative
  <2>2. LimitCrossed(index, limit, delta) <=> diff + e < 0
    <3>1. CASE diff + e < 0
      <4>1. Wrap(diff + delta) = W + (diff + e) BY <1>1, <1>4, <2>1, <3>1 DEF Wrap
      <4> QED BY <1>1, <1>4, <1>5, <1>9, <2>1, <3>1, <4>1 DEF SignsDiffer, Negative
    <3>2. CASE diff + e >= 0
      <4>1. (diff + delta) - W * 1 \in 0 .. W - 1 BY <1>1, <1>4, <2>1, <3>2
      <4>2. Wrap(diff + delta) = diff + e BY <1>1, <1>4, <2>1, <4>1, ModUnique DEF Wrap
      <4> QED BY <1>1, <1>4, <1>5, <1>9, <2>1, <3>2, <4>2 DEF SignsDiffer, Negative
    <3> QED BY <3>1, <3>2, <1>1, <1>4, <2>1
  <2> HIDE DEF e
  <2>3. ASSUME diff + e < 0 PROVE \E k \in 0 .. -e - 1 : Wrap(index - k) = limit
    <3>1. diff \in 0 .. -e - 1 /\ -diff \in Int BY <1>1, <1>4, <2>1, <2>3
    <3>2. diff + (-diff) = W * 0 BY <1>1, <1>4
    <3>3. Wrap(index + (-diff)) = limit BY <3>1, <3>2, <1>7
    <3>4. index + (-diff) = index - diff BY <1>2, <1>4
    <3> QED BY <3>1, <3>3, <3>4
  <2>4. ASSUME NEW k \in 0 .. -e - 1, Wrap(index - k) = limit PROVE diff + e < 0
    <3>1. k \in Int /\ k >= 0 /\ k <= -e - 1 /\ -k \in Int BY <2>1
    <3>2. index + (-k) = index - k BY <3>1, <1>2
    <3>3. PICK j \in Int : diff + (-k) = W * j BY <3>1, <3>2, <2>4, <1>7
    <3>4. j >= 0 /\ j <= 0
      <4>1. ~(j <= -1)
        <5> SUFFICES ASSUME j <= -1 PROVE FALSE OBVIOUS
        <5>1. W * j <= -W BY <1>1
        <5> QED BY <5>1, <3>1, <3>3, <1>1, <1>4, <2>1
      <4>2. ~(j >= 1)
        <5> SUFFICES ASSUME j >= 1 PROVE FALSE OBVIOUS
        <5>1. W * j >= W BY <1>1
        <5> QED BY <5>1, <3>1, <3>3, <1>1, <1>4, <2>1
      <4> QED BY <4>1, <4>2
    <3>5. W * j = 0 BY <3>4, <1>1
    <3> QED BY <3>1, <3>3, <3>5, <1>1, <1>4, <2>1
  <2>5. 1 .. e = {} BY <2>1, <1>1
  <2> QED BY <1>6, <2>2, <2>3, <2>4, <2>5
<1> QED BY <1>8, <1>9

\* One round of UM/MOD.
UMRound(s) == Shift(Subtract(s))

LEMMA RoundsExist ==
  ASSUME NEW first
  PROVE  \A n \in Nat : \E g : g = [i \in 0 .. n |-> IF i = 0 THEN first ELSE UMRound(g[i - 1])]
<1> DEFINE S == {n \in Nat : \E g : g = [i \in 0 .. n |-> IF i = 0 THEN first ELSE UMRound(g[i - 1])]}
<1>1. 0 \in S
  <2>1. [i \in 0 .. 0 |-> first] = [i \in 0 .. 0 |-> IF i = 0 THEN first ELSE UMRound([j \in 0 .. 0 |-> first][i - 1])]
    OBVIOUS
  <2> QED BY <2>1
<1>2. ASSUME NEW n \in Nat, n \in S PROVE n + 1 \in S
  <2>1. PICK g : g = [i \in 0 .. n |-> IF i = 0 THEN first ELSE UMRound(g[i - 1])] BY <1>2
  <2> DEFINE h == [i \in 0 .. n + 1 |-> IF i <= n THEN g[i] ELSE UMRound(g[n])]
  <2>2. h = [i \in 0 .. n + 1 |-> IF i = 0 THEN first ELSE UMRound(h[i - 1])]
    BY <2>1
  <2>3. n + 1 \in Nat OBVIOUS
  <2> HIDE DEF h
  <2> QED BY <2>2, <2>3
<1>3. Nat \subseteq S
  <2> HIDE DEF S
  <2> QED BY <1>1, <1>2, SetInduction
<1> QED BY <1>3

\* What is kept while n is divided: divisor times quotient, with what is left.
Dividing(s, n, d) ==
  /\ s.al \in Cell /\ s.ah \in Cell /\ s.bl \in Cell /\ s.bh \in Cell /\ s.q \in Cell
  /\ Double(s.bl, s.bh) = d /\ Double(s.al, s.ah) + s.q * d = n

LEMMA LessAsDoubles ==
  ASSUME NEW al \in Cell, NEW ah \in Cell, NEW bl \in Cell, NEW bh \in Cell
  PROVE  DULT(al, ah, bl, bh) <=> Double(al, ah) < Double(bl, bh)
<1>1. W \in Nat /\ W > 0 BY CellFacts
<1>2. al \in 0 .. W - 1 /\ ah \in 0 .. W - 1 /\ bl \in 0 .. W - 1 /\ bh \in 0 .. W - 1 BY DEF Cell
<1>3. W * ah \in Int /\ W * bh \in Int BY <1>1, <1>2
<1>4. CASE ah < bh
  <2>1. W * bh >= W * (ah + 1) BY <1>1, <1>2, <1>4
  <2>2. W * (ah + 1) = W * ah + W BY <1>1, <1>2
  <2> QED BY <1>1, <1>2, <1>3, <1>4, <2>1, <2>2 DEF DULT, Double
<1>5. CASE ah = bh BY <1>1, <1>2, <1>3, <1>5 DEF DULT, Double
<1>6. CASE ah > bh
  <2>1. W * ah >= W * (bh + 1) BY <1>1, <1>2, <1>6
  <2>2. W * (bh + 1) = W * bh + W BY <1>1, <1>2
  <2> QED BY <1>1, <1>2, <1>3, <1>6, <2>1, <2>2 DEF DULT, Double
<1> QED BY <1>2, <1>4, <1>5, <1>6

\* A subtraction leaves less than the divisor of what is less than its double.
LEMMA SubtractKeeps ==
  ASSUME NEW s, NEW n \in Nat, NEW d \in Nat, Dividing(s, n, d), s.q % 2 = 0, Double(s.al, s.ah) < 2 * d,
         s = [al |-> s.al, ah |-> s.ah, bl |-> s.bl, bh |-> s.bh, q |-> s.q]
  PROVE  /\ Dividing(Subtract(s), n, d) /\ Double(Subtract(s).al, Subtract(s).ah) < d
         /\ \E al, ah, q : Subtract(s) = [al |-> al, ah |-> ah, bl |-> s.bl, bh |-> s.bh, q |-> q]
<1>1. W \in Nat /\ W > 0 /\ W = 2 * HIGH_BIT /\ HIGH_BIT \in Nat BY CellFacts
<1>2. /\ s.al \in Cell /\ s.ah \in Cell /\ s.bl \in Cell /\ s.bh \in Cell /\ s.q \in Cell
      /\ Double(s.bl, s.bh) = d /\ Double(s.al, s.ah) + s.q * d = n
  BY DEF Dividing
<1>3. CASE DULT(s.al, s.ah, s.bl, s.bh)
  <2>1. Subtract(s) = s BY <1>3 DEF Subtract
  <2> QED BY <2>1, <1>2, <1>3, LessAsDoubles
<1>4. CASE ~DULT(s.al, s.ah, s.bl, s.bh)
  <2> DEFINE e == DMinus(s.al, s.ah, s.bl, s.bh)  x == Double(s.al, s.ah)  q == s.q
  <2>1. Subtract(s) = [al |-> e[1], ah |-> e[2], bl |-> s.bl, bh |-> s.bh, q |-> SetBit0(s.q)]
    BY <1>4 DEF Subtract
  <2>2. e[1] \in Cell /\ e[2] \in Cell /\ Double(e[1], e[2]) = (x - d) % (W * W) BY <1>2, DMinusExact
  <2>3. x \in 0 .. W * W - 1 /\ ~(x < d) BY <1>2, <1>4, DoubleRange, LessAsDoubles
  <2>4. x < 2 * d OBVIOUS
  <2>5. q \in 0 .. W - 1 /\ q % 2 = 0 /\ x + q * d = n BY <1>2 DEF Cell
  <2>6. SetBit0(s.q) = q + 1 BY <2>5 DEF SetBit0
  <2>7. q + 1 \in Cell BY <1>1, <2>5 DEF Cell
  <2> HIDE DEF x, q, e
  <2>8. Double(e[1], e[2]) = x - d
    <3> DEFINE w == W * W
    <3>1. w \in Nat BY <1>1
    <3>2. x - d \in 0 .. w - 1 BY <2>3, <3>1
    <3> HIDE DEF w
    <3>3. (x - d) % w = x - d BY <3>1, <3>2
    <3> QED BY <3>3, <2>2 DEF w
  <2>9. x - d + (q + 1) * d = n
    <3>1. (q + 1) * d = q * d + d /\ q * d \in Int BY <1>1, <2>5
    <3>2. x \in Int BY <1>1, <2>3
    <3> QED BY <3>1, <3>2, <2>5
  <2>10. x - d < d BY <1>1, <2>3, <2>4
  <2> DEFINE t == Subtract(s)
  <2>11. t.al = e[1] /\ t.ah = e[2] /\ t.bl = s.bl /\ t.bh = s.bh /\ t.q = q + 1 BY <2>1, <2>6
  <2>12. \E al, ah, p : t = [al |-> al, ah |-> ah, bl |-> s.bl, bh |-> s.bh, q |-> p] BY <2>1
  <2> HIDE DEF t
  <2>13. Dividing(t, n, d) BY <1>2, <2>2, <2>7, <2>8, <2>9, <2>11 DEF Dividing
  <2>14. Double(t.al, t.ah) < d BY <2>8, <2>10, <2>11
  <2> QED BY <2>12, <2>13, <2>14 DEF t
<1> QED BY <1>3, <1>4

\* A shift halves an even divisor and doubles the quotient.
LEMMA ShiftKeeps ==
  ASSUME NEW s, NEW n \in Nat, NEW h \in Nat, 2 * s.q < W, Dividing(s, n, 2 * h),
         \E al, ah, bl, bh, q : s = [al |-> al, ah |-> ah, bl |-> bl, bh |-> bh, q |-> q]
  PROVE  /\ Dividing(Shift(s), n, h) /\ Shift(s).q % 2 = 0 /\ Shift(s).al = s.al /\ Shift(s).ah = s.ah
         /\ \E al, ah, bl, bh, q : Shift(s) = [al |-> al, ah |-> ah, bl |-> bl, bh |-> bh, q |-> q]
<1>0. PICK al, ah, bl, bh, q : s = [al |-> al, ah |-> ah, bl |-> bl, bh |-> bh, q |-> q] OBVIOUS
<1>1. W \in Nat /\ W > 0 /\ W = 2 * HIGH_BIT /\ HIGH_BIT \in Nat BY CellFacts
<1> DEFINE t == Shift(s)
           bl1 == bl \div 2 + (bh % 2) * HIGH_BIT  bh1 == bh \div 2
<1>2. t = [al |-> al, ah |-> ah, bl |-> bl1, bh |-> bh1, q |-> Wrap(2 * q)]
  <2>1. s.bl = bl /\ s.bh = bh /\ s.q = q BY <1>0
  <2>2. t = [s EXCEPT !.q = Wrap(2 * s.q), !.bl = s.bl \div 2 + (s.bh % 2) * HIGH_BIT, !.bh = s.bh \div 2]
    BY <1>0 DEF Shift
  <2>3. t = [s EXCEPT !.q = Wrap(2 * q), !.bl = bl1, !.bh = bh1] BY <2>1, <2>2
  <2> HIDE DEF bl1, bh1
  <2> QED BY <1>0, <2>3
<1>3. /\ al \in Cell /\ ah \in Cell /\ bl \in 0 .. W - 1 /\ bh \in 0 .. W - 1 /\ q \in 0 .. W - 1
      /\ bl + W * bh = 2 * h /\ Double(al, ah) + q * (2 * h) = n
  BY <1>0 DEF Dividing, Cell, Double
<1>4. Wrap(2 * q) = 2 * q
  <2>1. 2 * q < W BY <1>0
  <2> QED BY <1>1, <1>3, <2>1 DEF Wrap
<1>5. bl1 + W * bh1 = h /\ bl1 \in 0 .. W - 1 /\ bh1 \in 0 .. W - 1
  <2> DEFINE z == bh \div 2  r == bh % 2  u == W * z  v == r * HIGH_BIT
  <2>1. z \in 0 .. W - 1 /\ r \in 0 .. 1 /\ bh = 2 * z + r BY <1>1, <1>3
  <2> HIDE DEF z, r
  <2>2. W * bh = 2 * (u + v) /\ u \in Int /\ v \in 0 .. HIGH_BIT
    <3>1. CASE r = 0 BY <1>1, <2>1, <3>1
    <3>2. CASE r = 1 BY <1>1, <2>1, <3>2
    <3> QED BY <2>1, <3>1, <3>2
  <2>3. bl + W * bh = 2 * h /\ W * bh \in Int BY <1>1, <1>3
  <2> HIDE DEF u, v
  <2>4. bl = 2 * (h - (u + v)) BY <1>1, <1>3, <2>2, <2>3
  <2>5. bl \div 2 = h - (u + v) BY <1>1, <2>2, <2>4
  <2>6. bl \div 2 \in 0 .. HIGH_BIT - 1 BY <1>1, <1>3
  <2>7. bl \div 2 + v \in 0 .. W - 1 /\ bl \div 2 + v + u = h BY <1>1, <2>2, <2>5, <2>6
  <2> QED BY <2>1, <2>7 DEF z, r, u, v
<1> HIDE DEF bl1, bh1, t
<1>6. Double(al, ah) + (2 * q) * h = n
  <2>1. q * (2 * h) = (2 * q) * h BY <1>1, <1>3
  <2> QED BY <2>1, <1>3
<1>7. 2 * q \in Cell /\ (2 * q) % 2 = 0
  <2>1. 2 * q < W BY <1>0
  <2> QED BY <1>1, <1>3, <2>1 DEF Cell
<1>8. Dividing(t, n, h) BY <1>2, <1>3, <1>4, <1>5, <1>6, <1>7 DEF Dividing, Cell, Double
<1>9. t.q % 2 = 0 /\ t.al = s.al /\ t.ah = s.ah BY <1>0, <1>2, <1>4, <1>7
<1> QED BY <1>2, <1>8, <1>9 DEF t

\* The rounds of UM/MOD, for a quotient that fits a cell.
RoundOK(s, n, d) ==
  /\ Dividing(s, n, d) /\ s.q % 2 = 0 /\ Double(s.al, s.ah) < 2 * d
  /\ \E al, ah, bl, bh, q : s = [al |-> al, ah |-> ah, bl |-> bl, bh |-> bh, q |-> q]

LEMMA RoundKeeps ==
  ASSUME NEW s, NEW n \in Nat, NEW d \in Nat, d > 0, NEW h \in Nat, h >= d, n < W * d, RoundOK(s, n, 2 * h)
  PROVE  RoundOK(UMRound(s), n, h)
<1>1. W \in Nat /\ W > 0 BY CellFacts
<1>2. 2 * h \in Nat OBVIOUS
<1>3. s = [al |-> s.al, ah |-> s.ah, bl |-> s.bl, bh |-> s.bh, q |-> s.q] BY DEF RoundOK
<1> DEFINE t == Subtract(s)
<1>4. /\ Dividing(t, n, 2 * h) /\ Double(t.al, t.ah) < 2 * h
      /\ \E al, ah, q : t = [al |-> al, ah |-> ah, bl |-> s.bl, bh |-> s.bh, q |-> q]
  BY <1>2, <1>3, SubtractKeeps DEF RoundOK
<1> HIDE DEF t
<1>5. PICK al, ah, q : t = [al |-> al, ah |-> ah, bl |-> s.bl, bh |-> s.bh, q |-> q] BY <1>4
<1>6. al \in Cell /\ ah \in Cell /\ q \in Cell /\ Double(al, ah) + q * (2 * h) = n /\ Double(al, ah) < 2 * h
  BY <1>4, <1>5 DEF Dividing
<1>7. 2 * q < W
  <2> SUFFICES ASSUME 2 * q >= W PROVE FALSE BY <1>1, <1>6 DEF Cell
  <2>1. q \in Nat BY <1>1, <1>6 DEF Cell
  <2>2. Double(al, ah) >= 0 /\ Double(al, ah) \in Int BY <1>1, <1>6, DoubleRange
  <2>3. q * (2 * h) = (2 * q) * h BY <2>1
  <2>4. (2 * q) * h >= W * h BY <1>1, <2>1
  <2>5. W * h >= W * d BY <1>1
  <2>6. (2 * q) * h \in Int /\ W * h \in Int /\ W * d \in Int BY <1>1, <2>1
  <2> QED BY <1>6, <2>2, <2>3, <2>4, <2>5, <2>6
<1> DEFINE u == Shift(t)
<1>8. /\ Dividing(u, n, h) /\ u.q % 2 = 0 /\ u.al = al /\ u.ah = ah
      /\ \E a1, a2, b1, b2, q1 : u = [al |-> a1, ah |-> a2, bl |-> b1, bh |-> b2, q |-> q1]
  <2>1. 2 * t.q < W /\ t.al = al /\ t.ah = ah BY <1>5, <1>7
  <2> QED BY <1>4, <2>1, ShiftKeeps
<1> HIDE DEF u
<1>9. RoundOK(u, n, h) BY <1>6, <1>8 DEF RoundOK
<1> QED BY <1>9 DEF u, t, UMRound

(* UM/MOD divides a double by a cell: when the quotient fits a cell, and   *)
(* so also for divisors above the highest bit, it is exact and the         *)
(* remainder is smaller than the divisor.  pf_inner.c:802-836              *)
THEOREM UMSlashModExact ==
  \A al, ah, bdiv \in Cell : ah < bdiv =>
    LET r == UMSlashMod(al, ah, bdiv)
    IN r[1] \in Cell /\ r[2] \in Cell /\ Double(al, ah) = r[2] * bdiv + r[1] /\ r[1] < bdiv
<1> SUFFICES ASSUME NEW al \in Cell, NEW ah \in Cell, NEW bdiv \in Cell, ah < bdiv
             PROVE  LET r == UMSlashMod(al, ah, bdiv)
                    IN r[1] \in Cell /\ r[2] \in Cell /\ Double(al, ah) = r[2] * bdiv + r[1] /\ r[1] < bdiv
  OBVIOUS
<1> DEFINE first == [al |-> al, ah |-> ah, bl |-> 0, bh |-> bdiv, q |-> 0]
           round[i \in 0 .. NBITS] == IF i = 0 THEN first ELSE UMRound(round[i - 1])
           end == Subtract(round[NBITS])
           n == Double(al, ah)
           D(i) == bdiv * Power[NBITS - i]
<1>1. W \in Nat /\ W > 0 /\ W = Power[NBITS] BY CellFacts
<1>2. NBITS \in Nat /\ NBITS > 0 BY CellAssumption
<1>3. UMSlashMod(al, ah, bdiv) = <<end.al, end.q>> BY DEF UMSlashMod, UMRound
<1>4. round = [i \in 0 .. NBITS |-> IF i = 0 THEN first ELSE UMRound(round[i - 1])]
  <2>1. \E g : g = [i \in 0 .. NBITS |-> IF i = 0 THEN first ELSE UMRound(g[i - 1])]
    <3> HIDE DEF first
    <3> QED BY <1>2, RoundsExist
  <2> HIDE DEF first
  <2> QED BY <2>1
<1> HIDE DEF round
<1>5. bdiv \in 0 .. W - 1 /\ ah \in 0 .. W - 1 /\ al \in 0 .. W - 1 /\ bdiv > 0 BY <1>1 DEF Cell
<1>6. n \in Nat /\ n < W * bdiv
  <2>1. n \in Nat BY <1>1, <1>5, DoubleRange
  <2>2. W * bdiv >= W * (ah + 1) BY <1>1, <1>5
  <2>3. W * (ah + 1) = W * ah + W /\ W * ah \in Int BY <1>1, <1>5
  <2> QED BY <1>1, <1>5, <2>1, <2>2, <2>3 DEF Double
<1>7. \A i \in 0 .. NBITS : D(i) \in Nat
  <2> TAKE i \in 0 .. NBITS
  <2>1. NBITS - i \in 0 .. NBITS BY <1>2
  <2>2. Power[NBITS - i] \in Nat BY <2>1, PowerPositive
  <2> QED BY <2>2, <1>1, <1>5
<1>8. round[0] = first /\ \A i \in 1 .. NBITS : round[i] = UMRound(round[i - 1])
  <2> HIDE DEF first
  <2>1. 0 \in 0 .. NBITS BY <1>2
  <2>2. round[0] = first BY <1>4, <2>1
  <2>3. ASSUME NEW i \in 1 .. NBITS PROVE round[i] = UMRound(round[i - 1])
    <3>1. i \in 0 .. NBITS /\ i # 0 BY <1>2
    <3> QED BY <1>4, <3>1
  <2> QED BY <2>2, <2>3
<1> HIDE DEF n
<1>9. RoundOK(round[0], n, D(0))
  <2>1. D(0) = bdiv * W BY <1>1, <1>2
  <2>2. Double(0, bdiv) = bdiv * W BY <1>1, <1>5 DEF Double
  <2>3. Dividing(first, n, D(0)) BY <1>1, <1>5, <1>6, <2>1, <2>2 DEF Dividing, Cell, n
  <2>4. Double(al, ah) < 2 * D(0)
    <3>1. W * bdiv = bdiv * W /\ W * bdiv \in Int BY <1>1, <1>5
    <3> QED BY <1>1, <1>5, <1>6, <2>1, <3>1 DEF n
  <2>5. \E a1, a2, b1, b2, q : first = [al |-> a1, ah |-> a2, bl |-> b1, bh |-> b2, q |-> q] OBVIOUS
  <2>6. first.q % 2 = 0 /\ Double(first.al, first.ah) < 2 * D(0) BY <2>4
  <2> HIDE DEF first, D
  <2> QED BY <1>8, <2>3, <2>5, <2>6 DEF RoundOK
<1> DEFINE S == {i \in Nat : i <= NBITS => RoundOK(round[i], n, D(i))}
<1>10. 0 \in S BY <1>9
<1>11. ASSUME NEW i \in Nat, i \in S PROVE i + 1 \in S
  <2> SUFFICES ASSUME i + 1 <= NBITS PROVE RoundOK(round[i + 1], n, D(i + 1)) OBVIOUS
  <2>1. i \in 0 .. NBITS /\ i + 1 \in 1 .. NBITS /\ NBITS - i \in 1 .. NBITS /\ NBITS - (i + 1) \in 0 .. NBITS BY <1>2
  <2>2. RoundOK(round[i], n, D(i)) BY <1>11, <2>1
  <2> DEFINE p == Power[NBITS - (i + 1)]
  <2>3. p \in Nat /\ p > 0 BY <2>1, PowerPositive
  <2>4. Power[NBITS - i] = 2 * p
    <3>1. Power[NBITS - i] = 2 * Power[NBITS - i - 1] BY <2>1, PowerStep
    <3>2. NBITS - i - 1 = NBITS - (i + 1) BY <1>2
    <3> QED BY <3>1, <3>2
  <2> HIDE DEF p
  <2> DEFINE h == bdiv * p
  <2>5. h \in Nat /\ h >= bdiv BY <1>1, <1>5, <2>3
  <2>6. D(i) = 2 * h BY <1>1, <1>5, <2>3, <2>4
  <2>7. D(i + 1) = h BY DEF p
  <2>8. round[i + 1] = UMRound(round[i])
    <3>1. i + 1 - 1 = i OBVIOUS
    <3> QED BY <1>8, <2>1, <3>1
  <2>9. RoundOK(round[i], n, 2 * h) BY <2>2, <2>6
  <2> HIDE DEF h, D
  <2>10. bdiv \in Nat BY <1>1, <1>5
  <2>11. RoundOK(UMRound(round[i]), n, h) BY <1>5, <1>6, <2>5, <2>9, <2>10, RoundKeeps
  <2> QED BY <2>7, <2>8, <2>11
<1>12. RoundOK(round[NBITS], n, bdiv)
  <2>1. NBITS \in S
    <3> HIDE DEF S
    <3> QED BY <1>2, <1>10, <1>11, SetInduction
  <2>2. D(NBITS) = bdiv
    <3>1. NBITS - NBITS = 0 BY <1>2
    <3> QED BY <3>1, <1>1, <1>5, PowerStep
  <2> QED BY <1>2, <2>1, <2>2
<1>13. Dividing(end, n, bdiv) /\ Double(end.al, end.ah) < bdiv
  <2> DEFINE s == round[NBITS]
  <2>1. RoundOK(s, n, bdiv) BY <1>12
  <2>2. bdiv \in Nat BY <1>1, <1>5
  <2> HIDE DEF s
  <2>3. s = [al |-> s.al, ah |-> s.ah, bl |-> s.bl, bh |-> s.bh, q |-> s.q] BY <2>1 DEF RoundOK
  <2>4. Dividing(Subtract(s), n, bdiv) /\ Double(Subtract(s).al, Subtract(s).ah) < bdiv
    BY <1>6, <2>1, <2>2, <2>3, SubtractKeeps DEF RoundOK
  <2> QED BY <2>4 DEF s
<1> HIDE DEF end
<1>14. end.ah = 0
  <2>1. end.ah \in 0 .. W - 1 /\ end.al \in 0 .. W - 1 /\ end.al + W * end.ah < bdiv BY <1>13 DEF Dividing, Cell, Double
  <2>2. end.ah >= 1 => W * end.ah >= W BY <1>1, <2>1
  <2>3. W * end.ah \in Int BY <1>1, <2>1
  <2> QED BY <1>1, <1>5, <2>1, <2>2, <2>3
<1>15. end.al \in Cell /\ end.q \in Cell /\ Double(end.al, end.ah) = end.al
  BY <1>1, <1>13, <1>14 DEF Dividing, Cell, Double
<1>16. end.al + end.q * bdiv = n /\ end.al < bdiv BY <1>13, <1>15 DEF Dividing
<1>17. n = end.q * bdiv + end.al
  <2>1. end.q * bdiv \in Int /\ end.al \in Int BY <1>1, <1>5, <1>15 DEF Cell
  <2> QED BY <2>1, <1>16
<1> QED BY <1>3, <1>15, <1>16, <1>17 DEF n

\* A double goes left by one bit; the bit that leaves it is the top of hi.
LEMMA DoubleLeft ==
  ASSUME NEW lo \in Cell, NEW hi \in Cell
  PROVE  /\ Wrap(2 * lo) \in Cell /\ Wrap(2 * lo) % 2 = 0
         /\ Wrap(2 * hi) + lo \div HIGH_BIT \in Cell /\ hi \div HIGH_BIT \in 0 .. 1
         /\ Double(Wrap(2 * lo), Wrap(2 * hi) + lo \div HIGH_BIT) = 2 * Double(lo, hi) - (W * W) * (hi \div HIGH_BIT)
<1>1. W \in Nat /\ W > 0 /\ W = 2 * HIGH_BIT /\ HIGH_BIT \in Nat /\ HIGH_BIT > 0 BY CellFacts
<1>2. ASSUME NEW x \in Cell
      PROVE  x \div HIGH_BIT \in 0 .. 1 /\ Wrap(2 * x) = 2 * (x - HIGH_BIT * (x \div HIGH_BIT))
             /\ x - HIGH_BIT * (x \div HIGH_BIT) \in 0 .. HIGH_BIT - 1
  <2>1. x \in 0 .. W - 1 BY DEF Cell
  <2>2. CASE x < HIGH_BIT
    <3>1. x - HIGH_BIT * 0 \in 0 .. HIGH_BIT - 1 BY <1>1, <2>1, <2>2
    <3>2. x \div HIGH_BIT = 0 BY <1>1, <2>1, <3>1, ModUnique
    <3>3. Wrap(2 * x) = 2 * x BY <1>1, <2>1, <2>2 DEF Wrap
    <3> QED BY <1>1, <2>1, <3>1, <3>2, <3>3
  <2>3. CASE x >= HIGH_BIT
    <3>1. x - HIGH_BIT * 1 \in 0 .. HIGH_BIT - 1 BY <1>1, <2>1, <2>3
    <3>2. x \div HIGH_BIT = 1 BY <1>1, <2>1, <3>1, ModUnique
    <3>3. 2 * x - W * 1 \in 0 .. W - 1 BY <1>1, <2>1, <2>3
    <3>4. Wrap(2 * x) = 2 * x - W BY <1>1, <2>1, <3>3, ModUnique DEF Wrap
    <3> QED BY <1>1, <2>1, <3>1, <3>2, <3>4
  <2> QED BY <1>1, <2>1, <2>2, <2>3
<1> DEFINE a == lo \div HIGH_BIT  b == hi \div HIGH_BIT  x == lo - HIGH_BIT * a  y == hi - HIGH_BIT * b
<1>3. a \in 0 .. 1 /\ x \in 0 .. HIGH_BIT - 1 /\ Wrap(2 * lo) = 2 * x BY <1>2
<1>4. b \in 0 .. 1 /\ y \in 0 .. HIGH_BIT - 1 /\ Wrap(2 * hi) = 2 * y BY <1>2
<1>5. lo \in Int /\ hi \in Int BY <1>1 DEF Cell
<1> HIDE DEF a, b
<1>6. lo = x + HIGH_BIT * a /\ hi = y + HIGH_BIT * b BY <1>1, <1>3, <1>4, <1>5
<1> HIDE DEF x, y
<1>7. 2 * x \in Cell /\ (2 * x) % 2 = 0 /\ 2 * y + a \in Cell BY <1>1, <1>3, <1>4 DEF Cell
<1>8. Double(2 * x, 2 * y + a) = 2 * Double(lo, hi) - (W * W) * b
  <2>1. W * (2 * y + a) = 2 * (W * y) + W * a BY <1>1, <1>3, <1>4
  <2>2. W * hi = W * y + (W * HIGH_BIT) * b BY <1>1, <1>4, <1>6
  <2>3. (W * W) * b = 2 * ((W * HIGH_BIT) * b) BY <1>1, <1>4
  <2>4. W * a = 2 * (HIGH_BIT * a) BY <1>1, <1>3
  <2>5. W * y \in Int /\ W * a \in Int /\ HIGH_BIT * a \in Int /\ (W * HIGH_BIT) * b \in Int /\ W * hi \in Int
    BY <1>1, <1>3, <1>4, <1>5
  <2> QED BY <1>3, <1>4, <1>6, <2>1, <2>2, <2>3, <2>4, <2>5 DEF Double
<1> QED BY <1>3, <1>4, <1>7, <1>8 DEF a, b

\* What is kept by the rounds of MU/MOD: quotient, remainder and what of n is
\* still to be divided stand for n times the power of 2 that was shifted.
Shifting(s, n, d, p) ==
  /\ s.ah \in Cell /\ s.am \in Cell /\ s.al \in Cell /\ s.qh \in Cell /\ s.ql \in Cell
  /\ (Double(s.ql, s.qh) * d + s.ah) * (W * W) + Double(s.al, s.am) = n * p
  /\ \E ah, am, al, qh, ql : s = [ah |-> ah, am |-> am, al |-> al, qh |-> qh, ql |-> ql]

LEMMA TakeKeeps ==
  ASSUME NEW s, NEW n \in Nat, NEW p \in Nat, NEW d \in Nat, d > 0,
         Shifting(s, n, d, p), s.ql % 2 = 0, s.ah < 2 * d
  PROVE  Shifting(Take(s, d), n, d, p) /\ Take(s, d).ah < d
<1>1. W \in Nat /\ W > 0 /\ W = 2 * HIGH_BIT /\ HIGH_BIT \in Nat BY CellFacts
<1>2. PICK ah, am, al, qh, ql : s = [ah |-> ah, am |-> am, al |-> al, qh |-> qh, ql |-> ql] BY DEF Shifting
<1>3. /\ ah \in 0 .. W - 1 /\ am \in Cell /\ al \in Cell /\ qh \in Cell /\ ql \in 0 .. W - 1
      /\ (Double(ql, qh) * d + ah) * (W * W) + Double(al, am) = n * p
  BY <1>2 DEF Shifting, Cell
<1>4. ql % 2 = 0 /\ ah < 2 * d BY <1>2
<1>5. CASE ~(d <= ah)
  <2>1. Take(s, d) = s BY <1>2, <1>5 DEF Take
  <2> QED BY <2>1, <1>2, <1>3, <1>5
<1>6. CASE d <= ah
  <2> DEFINE t == [ah |-> ah - d, am |-> am, al |-> al, qh |-> qh, ql |-> ql + 1]
  <2>1. SetBit0(ql) = ql + 1 BY <1>4 DEF SetBit0
  <2>2. Take(s, d) = t BY <1>2, <1>6, <2>1 DEF Take
  <2>3. ah - d \in Cell /\ ql + 1 \in Cell /\ ah - d < d BY <1>1, <1>3, <1>4, <1>6 DEF Cell
  <2>4. Double(ql + 1, qh) * d + (ah - d) = Double(ql, qh) * d + ah
    <3>1. qh \in 0 .. W - 1 BY <1>3 DEF Cell
    <3>2. Double(ql, qh) \in Int BY <1>1, <1>3, <3>1 DEF Double
    <3>3. Double(ql + 1, qh) = Double(ql, qh) + 1 BY <1>1, <1>3, <3>1 DEF Double
    <3> HIDE DEF t
    <3>4. (Double(ql, qh) + 1) * d = Double(ql, qh) * d + d /\ Double(ql, qh) * d \in Int BY <3>2
    <3> QED BY <3>3, <3>4, <1>3
  <2>5. Shifting(t, n, d, p) BY <1>3, <2>3, <2>4 DEF Shifting, Cell
  <2> QED BY <2>2, <2>3, <2>5
<1> QED BY <1>5, <1>6

LEMMA ShiftLeftKeeps ==
  ASSUME NEW s, NEW n \in Nat, n < W * W, NEW p \in Nat, p > 0, 2 * p <= W * W, NEW d \in Nat, d > 0, d <= HIGH_BIT,
         Shifting(s, n, d, p), s.ah < d
  PROVE  Shifting(ShiftLeft(s), n, d, 2 * p) /\ ShiftLeft(s).ql % 2 = 0 /\ ShiftLeft(s).ah < 2 * d
<1>1. W \in Nat /\ W > 0 /\ W = 2 * HIGH_BIT /\ HIGH_BIT \in Nat /\ HIGH_BIT > 0 BY CellFacts
<1>2. PICK ah, am, al, qh, ql : s = [ah |-> ah, am |-> am, al |-> al, qh |-> qh, ql |-> ql] BY DEF Shifting
<1> DEFINE w == W * W  Q == Double(ql, qh)  D == Double(al, am)
           ql1 == Wrap(2 * ql)  qh1 == Wrap(2 * qh) + ql \div HIGH_BIT
           al1 == Wrap(2 * al)  am1 == Wrap(2 * am) + al \div HIGH_BIT
           b == am \div HIGH_BIT  c == qh \div HIGH_BIT  ah1 == Wrap(2 * ah) + b
<1>3. ah \in 0 .. W - 1 /\ am \in Cell /\ al \in Cell /\ qh \in Cell /\ ql \in Cell /\ (Q * d + ah) * w + D = n * p
  BY <1>2 DEF Shifting, Cell
<1>4. ah < d BY <1>2
<1>5. ShiftLeft(s) = [ah |-> ah1, am |-> am1, al |-> al1, qh |-> qh1, ql |-> ql1] BY <1>2 DEF ShiftLeft
<1>6. ql1 \in Cell /\ ql1 % 2 = 0 /\ qh1 \in Cell /\ c \in 0 .. 1 /\ Double(ql1, qh1) = 2 * Q - w * c
  BY <1>3, DoubleLeft
<1>7. al1 \in Cell /\ am1 \in Cell /\ b \in 0 .. 1 /\ Double(al1, am1) = 2 * D - w * b
  BY <1>3, DoubleLeft
<1>8. ah1 = 2 * ah + b /\ ah1 \in Cell /\ ah1 < 2 * d
  <2>1. 2 * ah \in 0 .. W - 1 BY <1>1, <1>3, <1>4
  <2>2. Wrap(2 * ah) = 2 * ah BY <1>1, <2>1 DEF Wrap
  <2>3. ah1 = 2 * ah + b BY <2>2
  <2> HIDE DEF b, ah1
  <2>4. 2 * ah + b \in 0 .. W - 1 /\ 2 * ah + b < 2 * d BY <1>1, <1>3, <1>4, <1>7
  <2> QED BY <2>3, <2>4 DEF Cell
<1>9. Q \in 0 .. w - 1 /\ D \in 0 .. w - 1 /\ w \in Nat /\ w > 0
  <2>1. Q \in 0 .. w - 1 BY <1>3, DoubleRange
  <2>2. D \in 0 .. w - 1 BY <1>3, DoubleRange
  <2>3. w \in Nat /\ w > 0 BY <1>1
  <2> QED BY <2>1, <2>2, <2>3
<1>10. n < w /\ 2 * p <= w OBVIOUS
<1> HIDE DEF w, Q, D, ql1, qh1, al1, am1, b, c, ah1
<1>11. Q < p
  <2> DEFINE k == Q * d + ah
  <2>1. k \in Nat /\ Q <= k BY <1>1, <1>3, <1>9
  <2>2. n * p < w * p BY <1>9, <1>10
  <2>3. k * w + D = n * p BY <1>3
  <2> HIDE DEF k
  <2>4. k * w < w * p BY <2>1, <2>2, <2>3, <1>9
  <2>5. ~(k >= p)
    <3> SUFFICES ASSUME k >= p PROVE FALSE BY <2>1
    <3>1. k * w >= p * w BY <1>9, <2>1
    <3> QED BY <3>1, <2>4, <1>9, <2>1
  <2> QED BY <2>1, <2>5, <1>9
<1>12. c = 0
  <2>1. 2 * Q < w BY <1>9, <1>10, <1>11
  <2>2. CASE c = 1
    <3>1. Double(ql1, qh1) >= 0 BY <1>6, DoubleRange
    <3>2. w * c = w BY <2>2, <1>9
    <3> QED BY <1>6, <1>9, <2>1, <3>1, <3>2
  <2> QED BY <1>6, <2>2
<1>13. Double(ql1, qh1) = 2 * Q BY <1>6, <1>9, <1>12
<1>14. ((2 * Q) * d + ah1) * w + Double(al1, am1) = n * (2 * p)
  <2>1. (2 * Q) * d + ah1 = 2 * (Q * d + ah) + b BY <1>3, <1>8, <1>9, <1>7
  <2> DEFINE k == Q * d + ah
  <2>2. k \in Int BY <1>3, <1>9
  <2>3. k * w + D = n * p BY <1>3
  <2> HIDE DEF k
  <2>4. (2 * k + b) * w = 2 * (k * w) + w * b /\ k * w \in Int /\ w * b \in Int BY <2>2, <1>7, <1>9
  <2>5. n * (2 * p) = 2 * (n * p) /\ n * p \in Int OBVIOUS
  <2>6. (2 * Q) * d + ah1 = 2 * k + b BY <2>1 DEF k
  <2>7. ((2 * Q) * d + ah1) * w = 2 * (k * w) + w * b BY <2>4, <2>6
  <2> QED BY <2>3, <2>4, <2>5, <2>7, <1>7, <1>9
<1> DEFINE t == [ah |-> ah1, am |-> am1, al |-> al1, qh |-> qh1, ql |-> ql1]
<1>15. t.ah = ah1 /\ t.am = am1 /\ t.al = al1 /\ t.qh = qh1 /\ t.ql = ql1 OBVIOUS
<1>16. \E a1, a2, a3, q1, q2 : t = [ah |-> a1, am |-> a2, al |-> a3, qh |-> q1, ql |-> q2] OBVIOUS
<1> HIDE DEF t
<1>17. Shifting(t, n, d, 2 * p) BY <1>6, <1>7, <1>8, <1>13, <1>14, <1>15, <1>16 DEF Shifting, w
<1> QED BY <1>5, <1>6, <1>8, <1>15, <1>17 DEF t

MURound(s, d) == ShiftLeft(Take(s, d))

\* The states after 0 .. n rounds.
MURounds(first, d, n) ==
  CHOOSE g : g[0] = first /\ \A i \in 1 .. n : g[i] = MURound(g[i - 1], d)

LEMMA MURoundsExist ==
  ASSUME NEW first, NEW d, NEW n \in Nat
  PROVE  /\ MURounds(first, d, n)[0] = first
         /\ \A i \in 1 .. n : MURounds(first, d, n)[i] = MURound(MURounds(first, d, n)[i - 1], d)
<1> DEFINE Rounds(g, k) == g[0] = first /\ \A i \in 1 .. k : g[i] = MURound(g[i - 1], d)
           S == {k \in Nat : \E g : Rounds(g, k)}
<1>1. 0 \in S
  <2>1. Rounds([i \in 0 .. 0 |-> first], 0) OBVIOUS
  <2> QED BY <2>1
<1>2. ASSUME NEW k \in Nat, k \in S PROVE k + 1 \in S
  <2>1. PICK g : Rounds(g, k) BY <1>2
  <2> DEFINE h == [i \in 0 .. k + 1 |-> IF i <= k THEN g[i] ELSE MURound(g[k], d)]
  <2>2. h[0] = first BY <2>1
  <2>3. ASSUME NEW i \in 1 .. k + 1 PROVE h[i] = MURound(h[i - 1], d)
    <3>1. CASE i <= k
      <4>1. i \in 1 .. k /\ i - 1 \in 0 .. k + 1 /\ i - 1 <= k /\ i \in 0 .. k + 1 BY <3>1
      <4>2. h[i] = g[i] /\ h[i - 1] = g[i - 1] BY <4>1
      <4> QED BY <4>1, <4>2, <2>1
    <3>2. CASE i = k + 1
      <4>1. i \in 0 .. k + 1 /\ ~(i <= k) /\ i - 1 = k /\ k \in 0 .. k + 1 BY <3>2
      <4> QED BY <4>1
    <3> QED BY <3>1, <3>2
  <2> HIDE DEF h
  <2>4. Rounds(h, k + 1) BY <2>2, <2>3
  <2> QED BY <2>4
<1>3. Nat \subseteq S
  <2> HIDE DEF S
  <2> QED BY <1>1, <1>2, SetInduction
<1>4. \E g : g[0] = first /\ \A i \in 1 .. n : g[i] = MURound(g[i - 1], d) BY <1>3
<1> QED BY <1>4 DEF MURounds

\* The powers of 2 up to that of a double's width.
DoublePower(i) == IF i <= NBITS THEN Power[i] ELSE W * Power[i - NBITS]

LEMMA DoublePowers ==
  /\ DoublePower(0) = 1 /\ DoublePower(2 * NBITS) = W * W
  /\ \A i \in 0 .. 2 * NBITS : DoublePower(i) \in Nat /\ DoublePower(i) > 0
  /\ \A i \in 0 .. 2 * NBITS - 1 : DoublePower(i + 1) = 2 * DoublePower(i) /\ DoublePower(i + 1) <= W * W
<1>1. NBITS \in Nat /\ NBITS > 0 BY CellAssumption
<1>2. W \in Nat /\ W > 0 /\ W = Power[NBITS] BY CellFacts
<1>3. DoublePower(0) = 1 BY <1>1, PowerStep DEF DoublePower
<1>4. DoublePower(2 * NBITS) = W * W
  <2>1. ~(2 * NBITS <= NBITS) /\ 2 * NBITS - NBITS = NBITS BY <1>1
  <2> QED BY <2>1, <1>2 DEF DoublePower
<1>5. ASSUME NEW i \in 0 .. NBITS PROVE Power[i] \in Nat /\ Power[i] > 0 /\ Power[i] <= W
  <2>1. NBITS - i \in 0 .. NBITS /\ i + (NBITS - i) = NBITS BY <1>1
  <2>2. Power[i] \in Nat /\ Power[i] > 0 /\ Power[NBITS - i] \in Nat /\ Power[NBITS - i] > 0 BY <2>1, PowerPositive
  <2>3. Power[i + (NBITS - i)] = Power[i] * Power[NBITS - i] BY <1>1, <2>1, PowerSum
  <2>4. W = Power[i] * Power[NBITS - i] BY <1>2, <2>1, <2>3
  <2> QED BY <1>2, <2>2, <2>4
<1>6. ASSUME NEW i \in 0 .. 2 * NBITS PROVE DoublePower(i) \in Nat /\ DoublePower(i) > 0 /\ DoublePower(i) <= W * W
  <2>1. CASE i <= NBITS
    <3>1. i \in 0 .. NBITS BY <2>1, <1>1
    <3>2. W <= W * W BY <1>2
    <3>3. Power[i] \in Nat /\ Power[i] > 0 /\ Power[i] <= W BY <3>1, <1>5
    <3>4. DoublePower(i) = Power[i] BY <2>1 DEF DoublePower
    <3>5. W * W \in Nat BY <1>2
    <3> QED BY <3>2, <3>3, <3>4, <3>5, <1>2
  <2>2. CASE ~(i <= NBITS)
    <3> DEFINE p == Power[i - NBITS]
    <3>1. i - NBITS \in 0 .. NBITS BY <2>2, <1>1
    <3>2. p \in Nat /\ p > 0 /\ p <= W BY <3>1, <1>5
    <3>3. DoublePower(i) = W * p BY <2>2 DEF DoublePower
    <3> HIDE DEF p
    <3>4. W * p \in Nat /\ W * p > 0 /\ W * p <= W * W BY <3>2, <1>2
    <3> QED BY <3>3, <3>4
  <2> QED BY <2>1, <2>2
<1>7. ASSUME NEW i \in 0 .. 2 * NBITS - 1 PROVE DoublePower(i + 1) = 2 * DoublePower(i)
  <2>1. CASE i < NBITS
    <3>1. i + 1 \in 1 .. NBITS /\ i + 1 - 1 = i /\ i + 1 <= NBITS /\ i <= NBITS BY <2>1, <1>1
    <3> QED BY <3>1, PowerStep DEF DoublePower
  <2>2. CASE i = NBITS
    <3>1. ~(i + 1 <= NBITS) /\ (i + 1) - NBITS = 1 /\ i <= NBITS /\ 1 \in 1 .. NBITS /\ 1 - 1 = 0 BY <2>2, <1>1
    <3>2. Power[1] = 2 * 1 BY <3>1, PowerStep
    <3>3. DoublePower(i + 1) = W * 2 BY <3>1, <3>2 DEF DoublePower
    <3>4. DoublePower(i) = W BY <3>1, <2>2, <1>2 DEF DoublePower
    <3> QED BY <3>3, <3>4, <1>2
  <2>3. CASE i > NBITS
    <3> DEFINE k == i - NBITS
    <3>1. ~(i + 1 <= NBITS) /\ ~(i <= NBITS) /\ (i + 1) - NBITS = k + 1 /\ k + 1 \in 1 .. NBITS /\ k + 1 - 1 = k /\ k \in 0 .. NBITS
      BY <2>3, <1>1
    <3>2. DoublePower(i) = W * Power[k] BY <3>1 DEF DoublePower
    <3>3. DoublePower(i + 1) = W * Power[k + 1] BY <3>1 DEF DoublePower
    <3> HIDE DEF k
    <3>4. Power[k + 1] = 2 * Power[k] /\ Power[k] \in Nat
      <4>1. Power[k + 1] = 2 * Power[k + 1 - 1] BY <3>1, PowerStep
      <4> QED BY <4>1, <3>1, PowerPositive
    <3>5. W * (2 * Power[k]) = 2 * (W * Power[k]) BY <3>4, <1>2
    <3> QED BY <3>2, <3>3, <3>4, <3>5
  <2>4. i \in Nat BY <1>1
  <2> QED BY <2>1, <2>2, <2>3, <2>4, <1>1
<1>8. \A i \in 0 .. 2 * NBITS - 1 : DoublePower(i + 1) <= W * W
  <2> TAKE i \in 0 .. 2 * NBITS - 1
  <2>1. i + 1 \in 0 .. 2 * NBITS BY <1>1
  <2> QED BY <2>1, <1>6
<1> QED BY <1>3, <1>4, <1>6, <1>7, <1>8

(* MU/MOD divides a double by a cell to a double: it is exact for divisors *)
(* up to the highest bit.  (Above, "ah << 1" may lose a bit.)              *)
(* pf_inner.c:838-871                                                      *)
THEOREM MUSlashModExact ==
  \A al, am \in Cell : \A bdiv \in 1 .. HIGH_BIT :
    LET r == MUSlashMod(al, am, bdiv)
    IN /\ r[1] \in Cell /\ r[2] \in Cell /\ r[3] \in Cell
       /\ Double(al, am) = Double(r[2], r[3]) * bdiv + r[1] /\ r[1] < bdiv
<1> SUFFICES ASSUME NEW al \in Cell, NEW am \in Cell, NEW bdiv \in 1 .. HIGH_BIT
             PROVE  LET r == MUSlashMod(al, am, bdiv)
                    IN /\ r[1] \in Cell /\ r[2] \in Cell /\ r[3] \in Cell
                       /\ Double(al, am) = Double(r[2], r[3]) * bdiv + r[1] /\ r[1] < bdiv
  OBVIOUS
<1> DEFINE first == [ah |-> 0, am |-> am, al |-> al, qh |-> 0, ql |-> 0]
           round[i \in 0 .. 2 * NBITS] == IF i = 0 THEN first ELSE MURound(round[i - 1], bdiv)
           end == Take(round[2 * NBITS], bdiv)
           n == Double(al, am)
           OK(s, p) == Shifting(s, n, bdiv, p) /\ s.ql % 2 = 0 /\ s.ah < 2 * bdiv
<1>1. W \in Nat /\ W > 0 /\ HIGH_BIT \in Nat /\ W = 2 * HIGH_BIT BY CellFacts
<1>2. NBITS \in Nat /\ NBITS > 0 /\ 2 * NBITS \in Nat BY CellAssumption
<1>3. MUSlashMod(al, am, bdiv) = <<end.ah, end.ql, end.qh>> BY DEF MUSlashMod, MURound
<1>4. round = [i \in 0 .. 2 * NBITS |-> IF i = 0 THEN first ELSE MURound(round[i - 1], bdiv)]
  <2>1. \E g : g = [i \in 0 .. 2 * NBITS |-> IF i = 0 THEN first ELSE MURound(g[i - 1], bdiv)]
    <3> HIDE DEF first
    <3> DEFINE k == 2 * NBITS  g == MURounds(first, bdiv, k)
    <3>1. g[0] = first /\ \A i \in 1 .. k : g[i] = MURound(g[i - 1], bdiv)
      <4>1. k \in Nat BY <1>2
      <4> HIDE DEF k, first
      <4> QED BY <4>1, MURoundsExist
    <3> HIDE DEF g
    <3> DEFINE h == [i \in 0 .. 2 * NBITS |-> g[i]]
    <3>2. ASSUME NEW i \in 0 .. 2 * NBITS PROVE h[i] = IF i = 0 THEN first ELSE MURound(h[i - 1], bdiv)
      <4>1. i # 0 => i \in 1 .. 2 * NBITS /\ i - 1 \in 0 .. 2 * NBITS BY <1>2
      <4> QED BY <3>1, <4>1
    <3>3. h = [i \in 0 .. 2 * NBITS |-> IF i = 0 THEN first ELSE MURound(h[i - 1], bdiv)] BY <3>2
    <3> HIDE DEF h
    <3> QED BY <3>3
  <2> HIDE DEF first
  <2> QED BY <2>1
<1> HIDE DEF round
<1>5. bdiv \in Nat /\ bdiv > 0 /\ bdiv <= HIGH_BIT BY <1>1
<1>6. n \in Nat /\ n < W * W
  <2>1. n \in 0 .. W * W - 1 BY DoubleRange
  <2>2. W * W \in Nat BY <1>1
  <2> QED BY <2>1, <2>2
<1>7. round[0] = first /\ \A i \in 1 .. 2 * NBITS : round[i] = MURound(round[i - 1], bdiv)
  <2> HIDE DEF first
  <2>1. 0 \in 0 .. 2 * NBITS BY <1>2
  <2>2. round[0] = first BY <1>4, <2>1
  <2>3. ASSUME NEW i \in 1 .. 2 * NBITS PROVE round[i] = MURound(round[i - 1], bdiv)
    <3>1. i \in 0 .. 2 * NBITS /\ i # 0 BY <1>2
    <3> QED BY <1>4, <3>1
  <2> QED BY <2>2, <2>3
<1>8. OK(round[0], DoublePower(0))
  <2>1. (Double(0, 0) * bdiv + 0) * (W * W) + n = n * 1
    <3>1. Double(0, 0) = 0 BY <1>1 DEF Double
    <3>2. W * W \in Nat BY <1>1
    <3> HIDE DEF n
    <3> QED BY <3>1, <3>2, <1>5, <1>6
  <2>2. 0 \in Cell BY <1>1 DEF Cell
  <2>3. \E a1, a2, a3, q1, q2 : first = [ah |-> a1, am |-> a2, al |-> a3, qh |-> q1, ql |-> q2] OBVIOUS
  <2>4. first.ah = 0 /\ first.am = am /\ first.al = al /\ first.qh = 0 /\ first.ql = 0 OBVIOUS
  <2> HIDE DEF first
  <2>5. Shifting(first, n, bdiv, 1) BY <2>1, <2>2, <2>3, <2>4 DEF Shifting
  <2>6. first.ql % 2 = 0 /\ first.ah < 2 * bdiv BY <1>5, <2>4
  <2> HIDE DEF n
  <2> QED BY <1>7, <2>5, <2>6, DoublePowers
<1> HIDE DEF n
<1> DEFINE S == {i \in Nat : i <= 2 * NBITS => OK(round[i], DoublePower(i))}
<1>9. 0 \in S BY <1>8
<1>10. ASSUME NEW i \in Nat, i \in S PROVE i + 1 \in S
  <2> SUFFICES ASSUME i + 1 <= 2 * NBITS PROVE OK(round[i + 1], DoublePower(i + 1)) OBVIOUS
  <2>1. i \in 0 .. 2 * NBITS /\ i \in 0 .. 2 * NBITS - 1 /\ i + 1 \in 1 .. 2 * NBITS /\ i + 1 - 1 = i BY <1>2
  <2> DEFINE s == round[i]  p == DoublePower(i)  t == Take(s, bdiv)
  <2>2. Shifting(s, n, bdiv, p) /\ s.ql % 2 = 0 /\ s.ah < 2 * bdiv BY <1>10, <2>1
  <2>3. p \in Nat /\ p > 0 /\ DoublePower(i + 1) = 2 * p /\ 2 * p <= W * W BY <2>1, DoublePowers
  <2>4. round[i + 1] = ShiftLeft(t) BY <1>7, <2>1 DEF MURound
  <2> HIDE DEF s, p
  <2>5. Shifting(t, n, bdiv, p) /\ t.ah < bdiv BY <1>5, <1>6, <2>2, <2>3, TakeKeeps
  <2> HIDE DEF t
  <2>6. Shifting(ShiftLeft(t), n, bdiv, 2 * p) /\ ShiftLeft(t).ql % 2 = 0 /\ ShiftLeft(t).ah < 2 * bdiv
    BY <1>5, <1>6, <2>3, <2>5, ShiftLeftKeeps
  <2> QED BY <2>3, <2>4, <2>6
<1>11. OK(round[2 * NBITS], W * W)
  <2>1. 2 * NBITS \in S
    <3> HIDE DEF S
    <3> QED BY <1>2, <1>9, <1>10, SetInduction
  <2> QED BY <1>2, <2>1, DoublePowers
<1>12. Shifting(end, n, bdiv, W * W) /\ end.ah < bdiv
  <2> DEFINE s == round[2 * NBITS]
  <2>1. OK(s, W * W) BY <1>11
  <2>2. W * W \in Nat BY <1>1
  <2> HIDE DEF s
  <2>3. Shifting(Take(s, bdiv), n, bdiv, W * W) /\ Take(s, bdiv).ah < bdiv
    BY <1>5, <1>6, <2>1, <2>2, TakeKeeps
  <2> QED BY <2>3 DEF s
<1> HIDE DEF end
<1>13. n = Double(end.ql, end.qh) * bdiv + end.ah
  <2> DEFINE w == W * W  k == Double(end.ql, end.qh) * bdiv + end.ah  D == Double(end.al, end.am)
  <2>1. k * w + D = n * w BY <1>12 DEF Shifting
  <2>2. end.ql \in Cell /\ end.qh \in Cell /\ end.ah \in 0 .. W - 1 /\ end.al \in Cell /\ end.am \in Cell
    BY <1>12 DEF Shifting, Cell
  <2>3. D \in 0 .. w - 1 /\ Double(end.ql, end.qh) \in 0 .. w - 1 BY <2>2, DoubleRange
  <2>4. w \in Nat /\ w > 0 BY <1>1
  <2> HIDE DEF w, D
  <2>5. k \in Int BY <1>5, <2>2, <2>3, <2>4, <1>1
  <2> HIDE DEF k
  <2>6. (k * w + D) \div w = k /\ (n * w) \div w = n
    <3>1. (k * w + D) - w * k \in 0 .. w - 1 /\ k * w + D \in Int BY <2>3, <2>4, <2>5
    <3>2. n * w - w * n \in 0 .. w - 1 /\ n * w \in Int BY <1>6, <2>4
    <3> QED BY <3>1, <3>2, <1>6, <2>4, <2>5, ModUnique
  <2>7. k = n BY <2>1, <2>6
  <2> QED BY <2>7 DEF k
<1>14. end.ah \in Cell /\ end.ql \in Cell /\ end.qh \in Cell BY <1>12 DEF Shifting
<1> QED BY <1>3, <1>12, <1>13, <1>14 DEF n
=============================================================================
