\* One upload, and one handshake to race with it.
CONSTANTS
    users = users
    products = products
    Pool = {users, products}
    Required = {users}
    MinSize <- SmallMinSize
    Uploader = {u1}
    Validator = {v1}
    MaxLines = 2
    MaxBatch = 1
    None = None
SPECIFICATION FairSpec
CHECK_DEADLOCK FALSE
PROPERTY
    UploadEnds
