\* One update of a display name.
SPECIFICATION Spec
CONSTANTS
    User = {u1}
    Name = {old, new}
    Session = {s1}
    HasProfile = {u1}
    None = None
PROPERTIES UpdateIsStored
