\* Four tasks of one account after its add-account; searches fail in each way.
SPECIFICATION Spec
CONSTANTS
    Tasks = {t1, t2, t3, t4}
    AddAccount = AddAccount
    Searches = {"answered", "refused", "broken"}
    NoFolder = NoFolder
INVARIANTS
    TypeOK
    OneFolder
    ParentExists
