SPECIFICATION Spec
SYMMETRY MailSymmetry
CONSTANTS
    t1 = t1
    q1 = q1
    email = email
    call = call
    mail1 = mail1
    mail2 = mail2
    w1 = w1
    o = o
    None = None
    Threads = {t1}
    Seqs = {q1}
    Steps = {email, call}
    threadOf <- MCThreadOf
    seqOf <- MCSeqOf
    position <- MCPosition
    delay <- MCDelay
    Human = {call}
    Passing = {email}
    Mails = {mail1, mail2}
    matchOf <- MCMatchOf
    Sweeps = {w1}
    Operators = {o}
    RampCaps <- Ramp
    DailyCap = 2
    WeekDays = 1
    MaxMessages = 1
    Faults = {"crash", "gate", "transport", "answer", "triage"}
    MaxFaults = 1
    MaxDay = 1
    MaxManual = 1
INVARIANTS
    StepBudget
    CapOvershoot
    OptOutOvershoot
    MissedOnlyWhenExposed
    StrandedOnlyByEnrolment
