----------------------------- MODULE MCStreams ------------------------------
(***************************************************************************)
(* Instances for TLC of what libjr puts between a client and its files:    *)
(* the promise of the transaction log, the line buffer, the input buffer,  *)
(* polled descriptors, functions called by SIGIO, copies of files,         *)
(* filters, mail, text printed to files and sockets, buffered input,       *)
(* files in memory, the diagnosis of memory, sockets, paths for numbers,   *)
(* tar archives, and paragraphs. They share no state, so a behaviour works *)
(* on one of them, its subject, and the others stay as they begin: each is *)
(* explored as if it were alone.                                           *)
(***************************************************************************)
EXTENDS LogSpec, Lines, InputBuffer, Waiting, FileCopies, Filter, Mail,
  AprOutput, BufferedIo, MemFile, MemDiag, Socket, Archives

MCStrings == {<<"x">>, <<"tab">>}
MCTexts == {<<"nl", "a">>, <<"cr", "nl", "tab">>, <<"a">>}

MCPairs == {<<1, "read">>, <<1, "write">>, <<2, "read">>}

MCPrinted == {<<"a", "b", "c">>, <<"d">>}
MCSource == <<"a", "cr", "nl", "nl", "b", "cr", "nl">>
MCLimits == <<0, 2>>

MCKinds == [v \in PD_Values |->
  CASE v = 0 -> {"suffixed"} [] v = 2 -> {"directory"}
    [] v = 1 -> {"file", "suffixed"} [] OTHER -> {"file"}]

TarFile(path, size) == [path |-> path, type |-> "file", size |-> size, numbers |-> TRUE]
TarPath(path, type) == [path |-> path, type |-> type, size |-> 0, numbers |-> TRUE]
MCEntries ==
  {TarFile(<<"a">>, 0), TarFile(<<"a", "b">>, 1), TarFile(<<"a", "/", "b">>, 2),
   TarFile(<<"a", "/", "b", "/", "c">>, 3), [TarFile(<<"a">>, 1) EXCEPT !.numbers = FALSE],
   TarFile(<<"/", "a", "b", "c">>, 0), TarFile(<<"a", "b", "c", "d", "/", "e">>, 0),
   TarFile(<<"a", "/", "/", "b">>, 0), TarPath(<<"a">>, "dir"),
   TarPath(<<"a", "b", "/">>, "dir"), TarPath(<<"a", "/", "b", "c">>, "dir"),
   TarPath(<<"a", "/", "b", "/">>, "dir"), TarPath(<<"a", "b", "c", "/", "d", "e", "/">>, "dir"),
   TarPath(<<"a", "b">>, "link")}

MCLines ==
  {<<"a", "nl">>, <<" ", "b", "nl">>, <<"nl">>, <<"#", "nl">>, <<"a", "\\", "nl">>,
   <<" ">>, <<"b">>}
MCFlags ==
  {{}, {"blank", "preserve"}, {"newline", "preserve"}, {"less", "preserve"},
   {"greater", "preserve"}, {"blank"}, {"newline"}, {"less"}, {"greater", "newline"},
   {"less", "blank", "preserve"}}

VARIABLE subject

log_vars == vars

suite_vars ==
  <<subject, log_vars, lb_vars, ib_vars, pl_vars, ep_vars, ai_vars, fc_vars,
    fi_vars, ma_vars, ab_vars, bi_vars, mf_vars, md_vars, sk_vars, pd_vars,
    tr_vars, pg_vars>>

Subjects ==
  {"log", "lines", "input", "poll", "epoll", "async_io", "copies", "filter",
   "mail", "output", "buffered", "memory", "diagnosis", "sockets", "paths",
   "tar", "paragraphs"}

(* The subjects that begin in several ways do so only when they are it.    *)
SuiteInit ==
  /\ subject \in Subjects
  /\ SK_Init /\ PD_Init /\ TR_Init /\ PG_Init
  /\ Init /\ LB_Init /\ IB_Init /\ PL_Init /\ EP_Init /\ AI_Init /\ FC_Init
  /\ FI_Init /\ MA_Init /\ AB_Init /\ BI_Init /\ MF_Init /\ MD_Init
  /\ subject # "copies" => fc_files.to # NoFile /\ fc_files.from # NoFile
  /\ subject # "mail" => Says("message", "none") /\ ma_greetings = 1
  /\ subject # "output" => ab_kind = "file"
  /\ subject # "diagnosis" => md_tracing = "calls"
  /\ subject # "paragraphs" => pg_flags = {}

LogStep ==
  /\ subject = "log" /\ Next
  /\ UNCHANGED <<subject, lb_vars, ib_vars, pl_vars, ep_vars, ai_vars,
                 fc_vars, fi_vars, ma_vars, ab_vars, bi_vars, mf_vars,
                 md_vars, sk_vars, pd_vars, tr_vars, pg_vars>>
LinesStep ==
  /\ subject = "lines" /\ LB_Next
  /\ UNCHANGED <<subject, log_vars, ib_vars, pl_vars, ep_vars, ai_vars,
                 fc_vars, fi_vars, ma_vars, ab_vars, bi_vars, mf_vars,
                 md_vars, sk_vars, pd_vars, tr_vars, pg_vars>>
InputStep ==
  /\ subject = "input" /\ IB_Next
  /\ UNCHANGED <<subject, log_vars, lb_vars, pl_vars, ep_vars, ai_vars,
                 fc_vars, fi_vars, ma_vars, ab_vars, bi_vars, mf_vars,
                 md_vars, sk_vars, pd_vars, tr_vars, pg_vars>>
PollStep ==
  /\ subject = "poll" /\ PL_Next
  /\ UNCHANGED <<subject, log_vars, lb_vars, ib_vars, ep_vars, ai_vars,
                 fc_vars, fi_vars, ma_vars, ab_vars, bi_vars, mf_vars,
                 md_vars, sk_vars, pd_vars, tr_vars, pg_vars>>
EPollStep ==
  /\ subject = "epoll" /\ EP_Next
  /\ UNCHANGED <<subject, log_vars, lb_vars, ib_vars, pl_vars, ai_vars,
                 fc_vars, fi_vars, ma_vars, ab_vars, bi_vars, mf_vars,
                 md_vars, sk_vars, pd_vars, tr_vars, pg_vars>>
AsyncIOStep ==
  /\ subject = "async_io" /\ AI_Next
  /\ UNCHANGED <<subject, log_vars, lb_vars, ib_vars, pl_vars, ep_vars,
                 fc_vars, fi_vars, ma_vars, ab_vars, bi_vars, mf_vars,
                 md_vars, sk_vars, pd_vars, tr_vars, pg_vars>>
CopiesStep ==
  /\ subject = "copies" /\ FC_Next
  /\ UNCHANGED <<subject, log_vars, lb_vars, ib_vars, pl_vars, ep_vars,
                 ai_vars, fi_vars, ma_vars, ab_vars, bi_vars, mf_vars,
                 md_vars, sk_vars, pd_vars, tr_vars, pg_vars>>
FilterStep ==
  /\ subject = "filter" /\ FI_Next
  /\ UNCHANGED <<subject, log_vars, lb_vars, ib_vars, pl_vars, ep_vars,
                 ai_vars, fc_vars, ma_vars, ab_vars, bi_vars, mf_vars,
                 md_vars, sk_vars, pd_vars, tr_vars, pg_vars>>
MailStep ==
  /\ subject = "mail" /\ MA_Next
  /\ UNCHANGED <<subject, log_vars, lb_vars, ib_vars, pl_vars, ep_vars,
                 ai_vars, fc_vars, fi_vars, ab_vars, bi_vars, mf_vars,
                 md_vars, sk_vars, pd_vars, tr_vars, pg_vars>>
OutputStep ==
  /\ subject = "output" /\ AB_Next
  /\ UNCHANGED <<subject, log_vars, lb_vars, ib_vars, pl_vars, ep_vars,
                 ai_vars, fc_vars, fi_vars, ma_vars, bi_vars, mf_vars,
                 md_vars, sk_vars, pd_vars, tr_vars, pg_vars>>
BufferedStep ==
  /\ subject = "buffered" /\ BI_Next
  /\ UNCHANGED <<subject, log_vars, lb_vars, ib_vars, pl_vars, ep_vars,
                 ai_vars, fc_vars, fi_vars, ma_vars, ab_vars, mf_vars,
                 md_vars, sk_vars, pd_vars, tr_vars, pg_vars>>
MemoryStep ==
  /\ subject = "memory" /\ MF_Next
  /\ UNCHANGED <<subject, log_vars, lb_vars, ib_vars, pl_vars, ep_vars,
                 ai_vars, fc_vars, fi_vars, ma_vars, ab_vars, bi_vars,
                 md_vars, sk_vars, pd_vars, tr_vars, pg_vars>>
DiagnosisStep ==
  /\ subject = "diagnosis" /\ MD_Next
  /\ UNCHANGED <<subject, log_vars, lb_vars, ib_vars, pl_vars, ep_vars,
                 ai_vars, fc_vars, fi_vars, ma_vars, ab_vars, bi_vars,
                 mf_vars, sk_vars, pd_vars, tr_vars, pg_vars>>
SocketStep ==
  /\ subject = "sockets" /\ SK_Next
  /\ UNCHANGED <<subject, log_vars, lb_vars, ib_vars, pl_vars, ep_vars,
                 ai_vars, fc_vars, fi_vars, ma_vars, ab_vars, bi_vars,
                 mf_vars, md_vars, pd_vars, tr_vars, pg_vars>>
PathDbStep ==
  /\ subject = "paths" /\ PD_Next
  /\ UNCHANGED <<subject, log_vars, lb_vars, ib_vars, pl_vars, ep_vars,
                 ai_vars, fc_vars, fi_vars, ma_vars, ab_vars, bi_vars,
                 mf_vars, md_vars, sk_vars, tr_vars, pg_vars>>
TarStep ==
  /\ subject = "tar" /\ TR_Next
  /\ UNCHANGED <<subject, log_vars, lb_vars, ib_vars, pl_vars, ep_vars,
                 ai_vars, fc_vars, fi_vars, ma_vars, ab_vars, bi_vars,
                 mf_vars, md_vars, sk_vars, pd_vars, pg_vars>>
ParagraphStep ==
  /\ subject = "paragraphs" /\ PG_Next
  /\ UNCHANGED <<subject, log_vars, lb_vars, ib_vars, pl_vars, ep_vars,
                 ai_vars, fc_vars, fi_vars, ma_vars, ab_vars, bi_vars,
                 mf_vars, md_vars, sk_vars, pd_vars, tr_vars>>

SuiteNext ==
  \/ LogStep \/ LinesStep \/ InputStep \/ PollStep \/ EPollStep \/ AsyncIOStep
  \/ CopiesStep \/ FilterStep \/ MailStep \/ OutputStep \/ BufferedStep
  \/ MemoryStep \/ DiagnosisStep \/ SocketStep \/ PathDbStep \/ TarStep
  \/ ParagraphStep

SuiteSpec == SuiteInit /\ [][SuiteNext]_suite_vars
-----------------------------------------------------------------------------
(* Lines come back: the line buffer prints the lines that were put into    *)
(* it, and a reader of paragraphs loses none and reads none twice.         *)
LinesWhole == LB_PrintsLines /\ PG_ParagraphsWhole
=============================================================================
