----------------------------- MODULE MCOutreach -----------------------------
(***************************************************************************)
(* Outreach for TLC: one thread with a sequence of an email and a call; the *)
(* cfg names the bounds.                                                   *)
(***************************************************************************)
EXTENDS Outreach, TLC

CONSTANTS t1, q1, email, call, mail1, mail2, w1, o

MCThreadOf == q1 :> t1
MCSeqOf == email :> q1 @@ call :> q1
MCPosition == email :> 1 @@ call :> 2
MCDelay == email :> 0 @@ call :> 1
MCMatchOf == mail1 :> t1 @@ mail2 :> t1
MailSymmetry == Permutations(Mails)
Ramp == <<1>>
=============================================================================
