---------------------------- MODULE WhatsAppCloud ----------------------------
(***************************************************************************)
(* What a call of send_text or send_template (messaging/whatsapp_cloud.py) *)
(* comes to: at most three requests, the errors of messaging/errors.py.    *)
(***************************************************************************)
EXTENDS Naturals, FiniteSetsExt

\* _MAX_ATTEMPTS
MaxAttempts == 3

\* Meta's answers to one request, and whether the lead gets the message.  A
\* request without a status (httpx's exceptions) or with a 5xx may have been
\* carried out.
Reply ==
  {[status |-> 200, code |-> 0, received |-> TRUE],
   [status |-> 401, code |-> 0, received |-> FALSE],
   [status |-> 429, code |-> 0, received |-> FALSE]}
  \cup [status : {400}, code : {190, 131026, 131047, 131048}, received : {FALSE}]
  \cup [status : {0, 503}, code : {0}, received : BOOLEAN]

\* _classify_error
ClassifyError(r) ==
  IF r.status \in {401, 403} \/ r.code = 190 THEN "AuthError"
  ELSE IF r.status = 400
  THEN IF r.code \in {131026, 131051} THEN "RecipientUnreachable"
       ELSE IF r.code = 131047 THEN "WindowExpiredError" ELSE "PolicyError"
  ELSE IF r.status = 429 THEN "RateLimitError" ELSE "TransientError"

Answer(r) ==
  CASE r.status = 200 -> "sent"
    [] r.status = 0   -> "raised"
    [] OTHER          -> ClassifyError(r)

\* retry_if_exception_type(TransientError); an exception of httpx is not one.
Retried == {"TransientError", "RateLimitError"}

\* The requests made are those that follow only retried answers; the last one
\* decides.  doubt: the lead may have got what the caller takes for unsent.
Outcome(replies) ==
  LET made == {k \in 1..MaxAttempts : \A i \in 1..(k - 1) : Answer(replies[i]) \in Retried}
      copies == Cardinality({k \in made : replies[k].received})
      result == Answer(replies[Max(made)])
  IN [result |-> result, copies |-> copies,
      doubt  |-> result = "raised" \/ copies > (IF result = "sent" THEN 1 ELSE 0)]

Outcomes == {Outcome(replies) : replies \in [1..MaxAttempts -> Reply]}
=============================================================================
