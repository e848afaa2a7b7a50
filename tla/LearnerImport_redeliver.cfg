SPECIFICATION MCSpec
CONSTANTS
    b1 = b1  b2 = b2  u1 = u1  u2 = u2  t1 = t1
    class1 = class1  class2 = class2  issuer1 = issuer1  web1 = web1
    title1 = title1  title2 = title2  name1 = name1
    Ids = {class1, class2, issuer1, web1}
    WebUrls = {web1}
    Undefined = Undefined
    PlainText = PlainText
    MigrationBatches = {b1, b2}
    MaxRows = 2
    Templates <- SomeTemplates
    SlugOf <- SomeSlugs
    KnownRecipients <- SomeRecipients
    Jobs <- SomeJobs
    ImportJobs <- SomeJobs
    Workers = {w1, w2}
    Operators = {o1}
    Tokens = {k1, k2}
    MaxAttempts = 2
    LeaseSeconds = 1
    RetryDelay = 1
    BatchLimit = 2
    MaxTime = 1
    MaxResets = 1
    MaxCrashes = 1
    Entries = {n1, n2, n3, n4}
    Editors = {c1, c2}
    NewRecords <- SomeRecords
    Patches <- SomePatches
    MaxEdits = 3
    Batches = {b1}
    Files <- SomeFiles
    Owner <- SomeOwner
    Nothing = Nothing
SYMMETRY Symmetry
INVARIANTS
    ImportedOnce
    MigratedAsReported
PROPERTIES
    RevokedIsKept
