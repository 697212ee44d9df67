SPECIFICATION DigestSpec
CONSTANTS
    Events <- TheEvents
    Emails <- TheEmails
    Overrides <- TheOverrides
    MaxBuffer = 2
INVARIANT ToldOnce
