CONSTANTS
    db = db
    auth = auth
    users = users
    Packages = {db, auth}
    Tables = {users}
    Pool = db
    Sources <- MCSources
    Schemas <- MCSchemas
    Builders = {own, other}
    Own = own
    MaxVersion = 2
    MaxTries = 1
    MaxMoves = 3

SPECIFICATION Spec
INVARIANTS TypeOK TemplateWhole VariantsCallTheirTx ModelsHoldRows 
