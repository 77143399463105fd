SPECIFICATION Spec
CONSTANTS
    Names <- MCNames
    Fold <- MCFold
    Passwords <- MCPasswords
    AdminName = "Admin"
    AdminPassword = "PASSWD"
    Uuids = {admin, spare, u1, u2}
    AdminId = admin
    SpareId = spare
    NoAccount = NoAccount
    MaxLogins = 1
SYMMETRY Symmetry
INVARIANTS
    UsernamesUnique
