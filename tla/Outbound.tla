------------------------------ MODULE Outbound ------------------------------
(***************************************************************************)
(* One message on its way out: post_with_retry (services/send_result.py),  *)
(* and around it send_telegram_message, which gives up buttons and         *)
(* formatting where Telegram refuses them (services/telegram_notify.py).   *)
(* EvolutionClient.send_text is its plain case.                            *)
(*                                                                         *)
(* Telegram refuses a message for its formatting, its keyboard or its chat,*)
(* naming one of them, or because it is busy.  A request may also fail on  *)
(* the way, the message delivered or not.  Length and wording of the text  *)
(* are left out.                                                           *)
(***************************************************************************)
EXTENDS Naturals

CONSTANT Attempts    \* EVI_SEND_RETRY_ATTEMPTS, at least 1

VARIABLES
    asked,      \* what the caller wants of "format" and "keyboard"
    bad,        \* what Telegram does not take of this message
    form,       \* what the request carries
    stage,      \* which _post of send_telegram_message
    attempt,    \* of post_with_retry
    result,     \* what the caller gets
    refused,    \* history: reasons Telegram named
    late,       \* history: the keyboard was refused only after the formatting
    copies,     \* history: messages that arrived
    unheard     \* history: of these, the ones whose answer was lost

vars == <<asked, bad, form, stage, attempt, result, refused, late, copies, unheard>>
history == <<refused, late, copies, unheard>>
Parts == {"format", "keyboard"}

Init ==
    /\ asked \in SUBSET Parts /\ bad \in SUBSET (Parts \cup {"chat"})
    /\ form = asked /\ stage = "full" /\ attempt = 1 /\ result = "none"
    /\ refused = {} /\ late = FALSE /\ copies = 0 /\ unheard = 0

Acceptable == bad \cap (form \cup {"chat"}) = {}

\* Faulty variant: an answer that cannot be read is an error like any other.
DeliverUnread ==
    /\ result = "none" /\ Acceptable
    /\ copies' = copies + 1
    /\ IF attempt < Attempts THEN attempt' = attempt + 1 /\ UNCHANGED result
       ELSE result' = "sent" /\ UNCHANGED attempt
    /\ UNCHANGED <<asked, bad, form, stage, refused, late, unheard>>

\* 2xx, whether or not the id of the message can be read.
Deliver ==
    /\ result = "none" /\ Acceptable
    /\ copies' = copies + 1
    /\ result' = "sent"
    /\ UNCHANGED <<asked, bad, form, stage, attempt, refused, late, unheard>>

\* A transport error or 5xx, after which the message may have arrived, is tried again.
Fail(arrived) ==
    /\ result = "none" /\ (arrived => Acceptable)
    /\ IF arrived THEN copies' = copies + 1 /\ unheard' = unheard + 1
       ELSE UNCHANGED <<copies, unheard>>
    /\ IF attempt < Attempts THEN attempt' = attempt + 1 /\ UNCHANGED result
       ELSE result' = "failed" /\ UNCHANGED attempt
    /\ UNCHANGED <<asked, bad, form, stage, refused, late>>

\* Faulty variant: the text is sent bare at the first refusal.
AfterRefusalBare(reason) ==
    IF stage # "plain" /\ reason \in Parts
    THEN form' = {} /\ stage' = "plain" /\ attempt' = 1 /\ UNCHANGED result
    ELSE result' = "refused" /\ UNCHANGED <<form, stage, attempt>>

\* 4xx is not tried again, but answered: without its keyboard, once; then as plain text,
\* which is the last.
AfterRefusal(reason) ==
    IF stage = "full" /\ reason = "keyboard"
    THEN /\ form' = form \ {"keyboard"} /\ stage' = "bare" /\ attempt' = 1
         /\ UNCHANGED result
    ELSE IF stage # "plain" /\ reason = "format"
    THEN /\ form' = form \ {"format"} /\ stage' = "plain" /\ attempt' = 1
         /\ UNCHANGED result
    ELSE result' = "refused" /\ UNCHANGED <<form, stage, attempt>>

\* The reason named is one there is; too many requests, or a body that cannot be read,
\* name none.
Refuse(reason) ==
    /\ result = "none"
    /\ reason \in (bad \cap (form \cup {"chat"})) \cup {"busy"}
    /\ refused' = refused \cup {reason}
    /\ late' = (late \/ (reason = "keyboard" /\ stage = "plain"))
    /\ AfterRefusal(reason)
    /\ UNCHANGED <<asked, bad, copies, unheard>>

Next ==
    \/ Deliver
    \/ \E arrived \in BOOLEAN : Fail(arrived)
    \/ \E reason \in Parts \cup {"chat", "busy"} : Refuse(reason)

Spec == Init /\ [][Next]_vars

----------------------------------------------------------------------------
TypeOK ==
    /\ asked \subseteq Parts /\ form \subseteq asked /\ attempt \in 1..Attempts
    /\ stage \in {"full", "bare", "plain"}
    /\ result \in {"none", "sent", "failed", "refused"}

\* The user reads a message twice only if the answer to the first was lost.
RepeatedOnlyUnheard == copies = unheard + (IF result = "sent" THEN 1 ELSE 0)

\* A message that would be read as plain text is not lost for its looks, unless its
\* keyboard is refused after its formatting: what is left then is not sent.
NotLostForLooks == result = "refused" => late \/ refused \cap {"chat", "busy"} # {}

\* And it keeps what Telegram did not refuse.
LooksKept == asked \ form \subseteq refused

SendRight == RepeatedOnlyUnheard /\ NotLostForLooks /\ LooksKept
=============================================================================
