------------------------------ MODULE MatEngine ------------------------------
(***************************************************************************)
(* Registers and clock step of the matrix engine (mat_engine.v).           *)
(*                                                                         *)
(* The numbers are abstracted to where they come from: an accumulator row  *)
(* is the sequence of contributions that were made to it, in order: <<a>>   *)
(* for a loaded window, <<a, b>> for a pair that was multiplied.  Every     *)
(* state, pipeline stage and flag of the command machine is kept.  One step *)
(* of the requantisation pipe handles one output word (four elements in the *)
(* RTL).                                                                   *)
(***************************************************************************)
EXTENDS Integers, Sequences

CONSTANTS
    Rows,        \* accumulator rows (8)
    RowWords,    \* output words per row (2: eight int8 results)
    Banks,       \* accumulator banks (0..3)
    BadParams    \* parameter blocks in memory with a shift outside 31..62

ASSUME MatAssumption == Rows \in Nat \ {0} /\ RowWords \in Nat \ {0}

OutWords == Rows * RowWords

VARIABLES
    mat_st, mat_done, mat_err,   \* state, done, err_param
    cmd_q,       \* latched command: bank, repetitions, pointers
    rep_i, el_grp, el_iss, el_pack,
    rq_v, rq,    \* stage-2 valid; stage-1 capture: row and parameters
    par,         \* per-channel parameters fetched by PRM, or <<"wire">>: rs_mult
    acc,         \* acc[bank][row]: sequence of contributions
    t_we, t_waddr, t_wdata       \* registered TCM write port

matVars == <<mat_st, mat_done, mat_err, cmd_q, rep_i, el_grp, el_iss, el_pack,
             rq_v, rq, par, acc, t_we, t_waddr, t_wdata>>
mpipe == <<el_iss, el_pack, rq_v, rq>>
mport == <<t_waddr, t_wdata>>

MatStates == {"IDLE", "RUN", "RSC", "FIN", "LA", "LV", "PRM", "PRS"}
RowSet    == 0 .. Rows - 1

NoCmd == [bank |-> 0, rpt |-> 0, a |-> 0, b |-> 0]

\* acc and the data registers have no reset: a row holds something unknown.
MatInit ==
    /\ mat_st = "IDLE" /\ mat_done = FALSE /\ mat_err = FALSE
    /\ cmd_q = NoCmd /\ rep_i = 0 /\ el_grp = 0 /\ el_iss = 0 /\ el_pack = 0
    /\ rq_v = FALSE /\ rq = <<>> /\ par = <<>>
    /\ acc = [k \in Banks |-> [r \in RowSet |-> << <<>> >>]]
    /\ t_we = FALSE /\ t_waddr = 0 /\ t_wdata = <<>>

-----------------------------------------------------------------------------
(* The command wires c: op, bank (a mask for CLR), rpt, the pointers a and b,*)
(* param (rs_mult), out (out_base) and bad, which stands for the operand    *)
(* checks of param_bad that are about alignment and the shift range.        *)
ParamBad(c) ==
    \/ c.op # "CLR" /\ c.bank \notin Banks
    \/ c.op = "OP" /\ c.rpt = 0
    \/ c.op # "CLR" /\ c.bad

Start(op) == CASE op = "OP" -> "RUN" [] op = "LOADACC" -> "LA" [] op = "LOADVEC" -> "LV"
               [] op = "RESCALE" -> "RSC" [] op = "RESCALE_PC" -> "PRM" [] OTHER -> "IDLE"

\* CLR finishes in the same edge; a refused command completes with err_param.
MatGo(go, c) ==
    /\ mat_st = "IDLE" /\ go
    /\ LET refused == ParamBad(c) \/ c.op \notin {"CLR", "OP", "LOADACC", "LOADVEC",
                                                  "RESCALE", "RESCALE_PC"}
       IN  /\ mat_err' = refused
           /\ mat_done' = (refused \/ c.op = "CLR")
           /\ IF ParamBad(c)
              THEN UNCHANGED <<mat_st, cmd_q, rep_i, el_grp, el_iss, rq_v, par, acc>>
              ELSE /\ mat_st' = Start(c.op)
                   /\ cmd_q' = [bank |-> c.bank, rpt |-> c.rpt, b |-> c.b,
                                a |-> IF c.op = "RESCALE_PC" THEN c.param ELSE c.a]
                   /\ par' = IF c.op = "RESCALE" THEN <<"wire">> ELSE par
                   /\ rep_i' = 0 /\ el_grp' = 0 /\ el_iss' = 0 /\ rq_v' = FALSE
                   /\ acc' = IF c.op = "CLR"
                             THEN [k \in Banks |-> IF k \in c.bank
                                                   THEN [r \in RowSet |-> <<>>]
                                                   ELSE acc[k]]
                             ELSE acc
    /\ t_we' = FALSE
    /\ UNCHANGED <<el_pack, rq, mport>>

MatIdle(go) ==
    /\ mat_st = "IDLE" /\ ~go
    /\ t_we' = FALSE
    /\ UNCHANGED <<mat_st, mat_done, mat_err, cmd_q, rep_i, el_grp, mpipe, par,
                   acc, mport>>

\* S_RUN: one pair of operand windows per cycle, for every row.
MatRun(win) ==
    /\ mat_st = "RUN"
    /\ acc' = [acc EXCEPT ![cmd_q.bank] =
                  [r \in RowSet |-> Append(@[r], <<win.a, win.b>>)]]
    /\ IF cmd_q.rpt - rep_i <= 1
       THEN mat_st' = "IDLE" /\ mat_done' = TRUE /\ rep_i' = rep_i
       ELSE rep_i' = rep_i + 1 /\ UNCHANGED <<mat_st, mat_done>>
    /\ t_we' = FALSE
    /\ UNCHANGED <<mat_err, cmd_q, el_grp, mpipe, par, mport>>

\* S_LA: the fold words, broadcast down the rows, replace the bank.
MatLa(win) ==
    /\ mat_st = "LA"
    /\ acc' = [acc EXCEPT ![cmd_q.bank] = [r \in RowSet |-> << <<win.a>> >>]]
    /\ mat_st' = "IDLE" /\ mat_done' = TRUE
    /\ t_we' = FALSE
    /\ UNCHANGED <<mat_err, cmd_q, rep_i, el_grp, mpipe, par, mport>>

\* S_LV: one row per cycle.
MatLv(win) ==
    /\ mat_st = "LV"
    /\ acc' = [acc EXCEPT ![cmd_q.bank][el_grp] = << <<win.a>> >>]
    /\ IF el_grp = Rows - 1
       THEN mat_st' = "IDLE" /\ mat_done' = TRUE /\ el_grp' = el_grp
       ELSE el_grp' = el_grp + 1 /\ UNCHANGED <<mat_st, mat_done>>
    /\ t_we' = FALSE
    /\ UNCHANGED <<mat_err, cmd_q, rep_i, mpipe, par, mport>>

\* S_PRM, S_PRS: the per-channel multipliers, then the shifts, checked here.
MatPrm(win) ==
    /\ mat_st = "PRM"
    /\ par' = <<"blob", win.a>> /\ mat_st' = "PRS"
    /\ t_we' = FALSE
    /\ UNCHANGED <<mat_done, mat_err, cmd_q, rep_i, el_grp, mpipe, acc, mport>>

MatPrs ==
    /\ mat_st = "PRS"
    /\ IF par[2] \in BadParams
       THEN mat_st' = "IDLE" /\ mat_err' = TRUE /\ mat_done' = TRUE
       ELSE mat_st' = "RSC" /\ UNCHANGED <<mat_err, mat_done>>
    /\ t_we' = FALSE
    /\ UNCHANGED <<cmd_q, rep_i, el_grp, mpipe, par, acc, mport>>

\* S_RSC: stage 1 captures, stage 2 requantises and writes what stage 1
\* captured a cycle ago; out_base is the live wire.
\* Mutant: done with the write of the last word, not after it (no S_FIN), and
\* the word is written from the stage that holds the next element.
MatRscEarly(c) ==
    /\ mat_st = "RSC"
    /\ rq' = <<acc[cmd_q.bank][el_iss \div RowWords],
               IF par = <<"wire">> THEN <<"wire", c.param>> ELSE par>>
    /\ el_pack' = el_iss /\ rq_v' = TRUE
    /\ el_iss' = IF el_iss = OutWords - 1 THEN el_iss ELSE el_iss + 1
    /\ t_we' = rq_v
    /\ IF rq_v THEN t_waddr' = c.out + el_iss /\ t_wdata' = <<"out", el_pack, rq>>
               ELSE UNCHANGED mport
    /\ mat_st' = IF rq_v /\ el_pack = OutWords - 1 THEN "FIN" ELSE "RSC"
    /\ UNCHANGED <<mat_done, mat_err, cmd_q, rep_i, el_grp, par, acc>>

MatRsc(c) ==
    /\ mat_st = "RSC"
    /\ rq' = <<acc[cmd_q.bank][el_iss \div RowWords],
               IF par = <<"wire">> THEN <<"wire", c.param>> ELSE par>>
    /\ el_pack' = el_iss /\ rq_v' = TRUE
    /\ el_iss' = IF el_iss = OutWords - 1 THEN el_iss ELSE el_iss + 1
    /\ t_we' = rq_v
    /\ IF rq_v THEN t_waddr' = c.out + el_pack /\ t_wdata' = <<"out", el_pack, rq>>
               ELSE UNCHANGED mport
    /\ mat_st' = IF rq_v /\ el_pack = OutWords - 1 THEN "FIN" ELSE "RSC"
    /\ UNCHANGED <<mat_done, mat_err, cmd_q, rep_i, el_grp, par, acc>>

\* S_FIN: done trails the last word's write by one cycle.
MatFin ==
    /\ mat_st = "FIN"
    /\ mat_st' = "IDLE" /\ mat_done' = TRUE
    /\ t_we' = FALSE
    /\ UNCHANGED <<mat_err, cmd_q, rep_i, el_grp, mpipe, par, acc, mport>>

MatAbort ==
    /\ mat_st' = "IDLE" /\ mat_done' = FALSE /\ mat_err' = FALSE /\ t_we' = FALSE
    /\ UNCHANGED <<cmd_q, rep_i, el_grp, mpipe, par, acc, mport>>

MatBusy == mat_st # "IDLE"
AReads  == mat_st \in {"RUN", "LA", "LV", "PRM", "PRS"}    \* t_a_re
BReads  == mat_st = "RUN"                                  \* t_b_re

(* One rising clock edge; win holds what the two read ports show. *)
MatClk(ab, go, c, win) ==
    \/ ab /\ MatAbort
    \/ /\ ~ab
       /\ \/ MatGo(go, c) \/ MatIdle(go)
          \/ MatRun(win) \/ MatLa(win) \/ MatLv(win)
          \/ MatPrm(win) \/ MatPrs
          \/ MatRsc(c) \/ MatFin
=============================================================================
