--------------------------- MODULE EmailTransport ---------------------------
(***************************************************************************)
(* send_email: the provider that is configured (Brevo, Resend, else SMTP), *)
(* and what an SMTP send does to the resolver of the whole process.        *)
(* _prefer_ipv4 puts a wrapper in place of socket.getaddrinfo and puts     *)
(* back what it found; threads that send at the same time nest their       *)
(* wrappers in an order of their own.                                      *)
(***************************************************************************)
EXTENDS Naturals, FiniteSets

CONSTANTS
  Mailers,    \* threads that send mail
  MaxSends    \* bound: SMTP sends, each makes a wrapper of its own

ASSUME MailAssumption == MaxSends \in Nat

VARIABLES
  settings,   \* what is configured: a subset of {"brevo", "resend", "smtp", "sender"}
  resolver,   \* socket.getaddrinfo: 0 is the system's, n the wrapper of send n
  original,   \* original[n]: what wrapper n calls
  sending,    \* sending[t]: the send of thread t, 0 when it sends nothing
  started,    \* number of SMTP sends so far
  connected,  \* connected[t]: the resolver that thread t connected by, or NoResolver
  result,     \* result[t]: of the latest send_email of t
  overlapped  \* history: two SMTP sends ran at the same time

mailVars ==
  <<settings, resolver, original, sending, started, connected, result, overlapped>>

NoResolver == MaxSends + 1

NoResult == [sent |-> FALSE, configured |-> FALSE, via |-> "none"]

MailInit ==
  /\ settings \in SUBSET {"brevo", "resend", "smtp", "sender"}
  /\ resolver = 0
  /\ original = [n \in 1..MaxSends |-> 0]
  /\ sending = [t \in Mailers |-> 0]
  /\ started = 0
  /\ connected = [t \in Mailers |-> NoResolver]
  /\ result = [t \in Mailers |-> NoResult]
  /\ overlapped = FALSE

\* Brevo, else Resend: a refusal is reported, not tried elsewhere.  The SMTP user
\* is the sender if none is set; without a sender nothing is sent.
Https(t) ==
  /\ settings \cap {"brevo", "resend"} # {} /\ started < MaxSends
  /\ started' = started + 1
  /\ LET via    == IF "brevo" \in settings THEN "brevo" ELSE "resend"
         sender == settings \cap {"sender", "smtp"} # {}
     IN  \E sent \in BOOLEAN :
           /\ sent => sender
           /\ result' = [result EXCEPT ![t] =
                [sent |-> sent, configured |-> sender, via |-> via]]
  /\ UNCHANGED <<settings, resolver, original, sending, connected, overlapped>>

\* Nothing is configured.
Refuse(t) ==
  /\ settings \cap {"brevo", "resend", "smtp"} = {}
  /\ result' = [result EXCEPT ![t] = NoResult]
  /\ UNCHANGED <<settings, resolver, original, sending, started, connected, overlapped>>

\* _prefer_ipv4 is entered: the wrapper keeps the function that it replaces.
Enter(t) ==
  /\ settings \cap {"brevo", "resend"} = {} /\ "smtp" \in settings
  /\ sending[t] = 0 /\ started < MaxSends
  /\ started' = started + 1
  /\ sending' = [sending EXCEPT ![t] = started + 1]
  /\ original' = [original EXCEPT ![started + 1] = resolver]
  /\ resolver' = started + 1
  /\ overlapped' = (overlapped \/ \E s \in Mailers : sending[s] # 0)
  /\ connected' = [connected EXCEPT ![t] = NoResolver]
  /\ UNCHANGED <<settings, result>>

\* smtplib.SMTP resolves the host and connects.
Connect(t) ==
  /\ sending[t] # 0
  /\ connected' = [connected EXCEPT ![t] = resolver]
  /\ UNCHANGED <<settings, resolver, original, sending, started, result, overlapped>>

\* Mutant of Restored: only a successful send puts the resolver back.
RestoredIfSent(t, sent) == IF sent THEN original[sending[t]] ELSE resolver

\* `finally`, whether the mail was sent or not.
Restored(t, sent) == original[sending[t]]

\* The mail is sent or anything fails, and _prefer_ipv4 is left.
Leave(t) ==
  /\ sending[t] # 0
  /\ \E sent \in BOOLEAN :
       /\ sent => connected[t] # NoResolver
       /\ resolver' = Restored(t, sent)
       /\ result' = [result EXCEPT ![t] =
            [sent |-> sent, configured |-> TRUE, via |-> "smtp"]]
  /\ sending' = [sending EXCEPT ![t] = 0]
  /\ connected' = [connected EXCEPT ![t] = NoResolver]
  /\ UNCHANGED <<settings, original, started, overlapped>>

MailNext == \E t \in Mailers :
  Https(t) \/ Refuse(t) \/ Enter(t) \/ Connect(t) \/ Leave(t)

MailSpec == MailInit /\ [][MailNext]_mailVars

-----------------------------------------------------------------------------
(* Properties.                                                             *)

\* "Scoped narrowly to the send": the resolver is replaced while a mail is sent
\* and at no other time, as long as no two sends overlap.
ScopedNarrowly ==
  ~overlapped => (resolver # 0 <=> \E t \in Mailers : sending[t] # 0)
=============================================================================
