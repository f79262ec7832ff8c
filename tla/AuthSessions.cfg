CONSTANTS
    Requests = {r1, r2}
    UserIds = {u1, u2}
    mail = mail
    Mail = Mail
    other = other
    Emails = {mail, Mail, other}
    AllowedEmails = {mail, Mail}
    Normal <- MCNormal
    AccessTtl = 2
    RefreshTtl = 3
    MaxDelay = 1
    None = None
    Deleted = Deleted

SPECIFICATION Spec

INVARIANTS
    SessionEnds

PROPERTIES
    ShutOut
    ShutOutForGood
