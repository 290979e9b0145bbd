CONSTANTS
    WithPw = {web}
    WithKey = {web, git}
SPECIFICATION Spec
INVARIANT PasswordsKept
CHECK_DEADLOCK FALSE
