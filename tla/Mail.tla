-------------------------------- MODULE Mail --------------------------------
(***************************************************************************)
(* Mail is sent, and servers and addresses are validated, by a talk with   *)
(* an SMTP server (src/libjr/io/maillib.c, mailtime.c). After every        *)
(* command the client reads one answer: with jr_socket_readlines, which    *)
(* inetlib.h says gives all that has arrived, and the status of the first  *)
(* line of that is taken for the answer.                                   *)
(*                                                                         *)
(* The server and the connection are external: the server greets, once or  *)
(* more, and answers what SMTP has it answer, refuses what it likes, and   *)
(* may close the connection. Answers arrive when the server gives them.    *)
(***************************************************************************)
EXTENDS Integers, Sequences

CONSTANTS MA_Greetings     \* how many 220 a server may send

ASSUME MailAssumption == MA_Greetings \subseteq Nat \ {0}

VARIABLES
  ma_call,         \* kind of call, and the answer it waits for
  ma_valid,        \* server_is_valid, address_is_valid
  ma_result,       \* what the call returns
  ma_open,         \* smtp_fd is open
  ma_sent,         \* commands the server has not read
  ma_answers,      \* statuses the client has not read
  ma_server,       \* state of the server
  ma_greetings     \* history: how many greetings this server had

ma_vars == <<ma_call, ma_valid, ma_result, ma_open, ma_sent, ma_answers, ma_server, ma_greetings>>

Kinds == {"message", "server", "server_for_sender", "address"}

MA_Init ==
  /\ ma_call \in [kind : Kinds, step : {"connect"}, timed : BOOLEAN]
  /\ ma_call.kind = "message" => ~ma_call.timed
  /\ ma_valid = FALSE /\ ma_result = "none" /\ ma_open = FALSE
  /\ ma_sent = <<>> /\ ma_answers = <<>>
  /\ \E n \in MA_Greetings :
       /\ ma_server = [greetings |-> n, state |-> "greeting",
                       sender |-> FALSE, recipient |-> FALSE, accepted |-> 0]
       /\ ma_greetings = n

-----------------------------------------------------------------------------
(* The client.                                                             *)

(* The commands of a call in their order; what follows DATA is the text.   *)
Commands(kind) ==
  CASE kind = "message" -> <<"greeting", "HELO", "MAIL", "RCPT", "DATA", "text", "QUIT">>
    [] kind = "server" -> <<"greeting", "HELO", "QUIT">>
    [] kind = "server_for_sender" -> <<"greeting", "HELO", "MAIL", "QUIT">>
    [] kind = "address" -> <<"greeting", "HELO", "MAIL", "RCPT", "QUIT">>

Following(kind, step) ==
  LET commands == Commands(kind)
  IN commands[1 + CHOOSE i \in DOMAIN commands : commands[i] = step]

(* The answer that decides what a validation says: the call goes on        *)
(* whatever it is.                                                         *)
Decides(kind, step) == kind # "message" /\ Following(kind, step) = "QUIT"

(* The statuses with which a call goes on. Mutant: any but a permanent     *)
(* failure.                                                                *)
GoesOnUnlessRefused(kind, step) == {220, 221, 250, 251, 354}

GoesOn(kind, step) ==
  CASE step = "greeting" -> {220}
    [] step = "HELO" -> {250, 220}
    [] step = "DATA" -> {250, 354, 251}
    [] step = "QUIT" -> {221}
    [] OTHER -> {250}

Return(result) ==
  /\ ma_call' = [ma_call EXCEPT !.step = "done"]
  /\ ma_result' = result
  /\ ma_open' = FALSE

Send(command) ==
  /\ ma_call' = [ma_call EXCEPT !.step = command]
  /\ ma_sent' = IF ma_server.state = "closed" THEN ma_sent ELSE Append(ma_sent, command)
  /\ UNCHANGED <<ma_result, ma_open>>

Verdict(valid) == IF valid THEN "valid" ELSE "invalid"

MA_Connect ==
  /\ ma_call.step = "connect"
  /\ \/ /\ ma_call' = [ma_call EXCEPT !.step = "greeting"] /\ ma_open' = TRUE
        /\ UNCHANGED ma_result
     \/ Return("error")
  /\ UNCHANGED <<ma_valid, ma_sent, ma_answers, ma_server, ma_greetings>>

(* What a call does with an answer, by the kind of the call and the step.  *)
MA_Read ==
  /\ ma_call.step \notin {"connect", "done"} /\ ma_answers # <<>>
  /\ \E kind \in {ma_call.kind}, step \in {ma_call.step}, status \in {Head(ma_answers)} :
       IF step = "QUIT"
       THEN /\ Return(IF kind # "message" THEN Verdict(ma_valid)
                      ELSE IF status \in GoesOn(kind, step) THEN "ok" ELSE "error")
            /\ UNCHANGED <<ma_valid, ma_sent>>
       ELSE IF Decides(kind, step)
       THEN /\ ma_valid' = (status \in {250} \cup IF kind = "address" THEN {251} ELSE {})
            /\ Send("QUIT")
       ELSE IF status \in GoesOn(kind, step)
       THEN Send(Following(kind, step)) /\ UNCHANGED ma_valid
       ELSE Return("error") /\ UNCHANGED <<ma_valid, ma_sent>>
  /\ ma_answers' = <<>>
  /\ UNCHANGED <<ma_server, ma_greetings>>

(* The connection has ended. Only a validation that has its answer may do  *)
(* without that to QUIT.                                                   *)
MA_Eof ==
  /\ ma_call.step \notin {"connect", "done"} /\ ma_answers = <<>>
  /\ ma_server.state = "closed"
  /\ Return(IF ma_call.step = "QUIT" /\ ma_call.kind # "message" THEN Verdict(ma_valid) ELSE "error")
  /\ UNCHANGED <<ma_valid, ma_sent, ma_answers, ma_server, ma_greetings>>

(* The alarm of jr_MailServerValidateWithTimeOut and                       *)
(* jr_MailAddressValidateWithTimeOut jumps out of the call, which does not *)
(* close the connection; it may come when the call has its result.         *)
MA_TimeOut ==
  /\ ma_call.timed /\ ma_result # "timed_out"
  /\ ma_call' = [ma_call EXCEPT !.step = "done"]
  /\ ma_result' = "timed_out"
  /\ UNCHANGED <<ma_valid, ma_open, ma_sent, ma_answers, ma_server, ma_greetings>>

-----------------------------------------------------------------------------
(* The server.                                                             *)

Client == UNCHANGED <<ma_call, ma_valid, ma_result, ma_open, ma_greetings>>

MA_Greet ==
  /\ ma_open /\ ma_server.greetings > 0
  /\ ma_server' = [ma_server EXCEPT !.greetings = @ - 1,
                     !.state = IF ma_server.greetings = 1 THEN "commands" ELSE "greeting"]
  /\ ma_answers' = Append(ma_answers, 220)
  /\ UNCHANGED ma_sent /\ Client

(* The possible answers to a command, with the state the server is then in.*)
Replies(server, command) ==
  LET now(status, state) == [status |-> status, server |-> state]
      refused == {now(550, server)}
  IN CASE command = "HELO" -> {now(250, server)} \cup refused
       [] command = "MAIL" -> {now(250, [server EXCEPT !.sender = TRUE])} \cup refused
       [] command = "RCPT" /\ server.sender ->
            {now(s, [server EXCEPT !.recipient = TRUE]) : s \in {250, 251}} \cup refused
       [] command = "DATA" /\ server.recipient ->
            {now(354, [server EXCEPT !.state = "text"])} \cup refused
       [] command = "text" /\ server.state = "text" ->
            {now(250, [server EXCEPT !.state = "commands", !.accepted = @ + 1]),
             now(550, [server EXCEPT !.state = "commands"])}
       [] command = "QUIT" -> {now(221, [server EXCEPT !.state = "closed"])}
       [] OTHER -> refused

MA_Answer ==
  /\ ma_server.state \in {"commands", "text"} /\ ma_sent # <<>>
  /\ \E reply \in Replies(ma_server, Head(ma_sent)) :
       ma_server' = reply.server /\ ma_answers' = Append(ma_answers, reply.status)
  /\ ma_sent' = Tail(ma_sent)
  /\ Client

MA_Close ==
  /\ ma_open /\ ma_server.state # "closed"
  /\ ma_server' = [ma_server EXCEPT !.state = "closed", !.greetings = 0]
  /\ ma_sent' = <<>>
  /\ UNCHANGED ma_answers /\ Client

MA_Next == MA_Connect \/ MA_Read \/ MA_Eof \/ MA_TimeOut \/ MA_Greet \/ MA_Answer \/ MA_Close

MA_Spec == MA_Init /\ [][MA_Next]_ma_vars

-----------------------------------------------------------------------------
Says(kind, result) == ma_call.kind = kind /\ ma_result = result

(* Mail that was sent, as the caller is told, was accepted by the server,  *)
(* once, even if the server greets more than once. With one greeting an    *)
(* address is called valid just when the server accepted it, and mail the  *)
(* server has accepted is reported as an error only when the talk broke    *)
(* off after the text was sent. A call that was not timed out leaves no    *)
(* connection behind.                                                      *)
MA_TruthTold ==
  /\ Says("message", "ok") => ma_server.accepted = 1
  /\ ma_server.accepted <= 1
  /\ ma_greetings = 1 =>
       /\ Says("address", "valid") => ma_server.recipient
       /\ Says("address", "invalid") => ~ma_server.recipient
       /\ Says("server_for_sender", "valid") => ma_server.sender
       /\ Says("message", "error") /\ ma_server.accepted = 1 => ma_server.state = "closed"
  /\ ma_result \notin {"none", "timed_out"} => ~ma_open

(* What the comment in maillib.c about "multiple 220 init messages" is     *)
(* there for, and the code does not do: an address is called valid only    *)
(* when the server accepted it, also by one that greets twice.             *)
MA_ValidMeansAccepted == Says("address", "valid") => ma_server.recipient
=============================================================================
