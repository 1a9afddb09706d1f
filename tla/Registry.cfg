\* Three concurrent load and unload requests on a model and a version of it.
SPECIFICATION RegistrySpec
CONSTANTS
    a = a
    v = v
    r1 = r1
    r2 = r2
    r3 = r3
    Id = {a}
    Version = {v}
    NoVersion = NoVersion
    Request = {r1, r2, r3}
INVARIANTS RegistriesAgree LoadersExclusive
