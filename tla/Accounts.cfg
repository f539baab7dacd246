\* Guesses, sign-ins and administrators interleave on two accounts.
SPECIFICATION FairSpec
CONSTANTS
  NULL = NULL
  root = root ann = ann bob = bob p1 = p1 p2 = p2
  Users = {root, ann, bob}
  Addresses = {home}
  Requests = {q1, q2}
  Passwords = {p1, p2}
  MaxAttempts = 2
  LockTime = 1
  MaxFailures = 2
  Window = 1
  Keep = 1
  BlockTime = 1
  InitUsers <- Seeded
  PatchForms <- Forms
  IdpRoles = {"viewer"}
  Owners = {ann}
  Guessed = {ann}
  MaxWrong = 4
  MaxEdits = 1
INVARIANT Inv
PROPERTIES
  PermanentIsEarned
  BlockIsEarned
  EventuallyIn
