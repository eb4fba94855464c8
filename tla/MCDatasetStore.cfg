\* Two uploads of two lines, a required pool that needs two rows and an optional
\* one, a handshake, and a DELETE or an expiry at any point.
CONSTANTS
    users = users
    products = products
    Pool = {users, products}
    Required = {users}
    MinSize <- SmallMinSize
    Uploader = {u1, u2}
    Validator = {v1}
    MaxLines = 2
    MaxBatch = 1
    None = None
SPECIFICATION Spec
SYMMETRY Symmetry
CHECK_DEADLOCK FALSE
INVARIANTS
    DatasetInv
    UploadExact
    VerdictSound
    NoFalseReject
