\* A pack of two cases, seeded again twice; any file of up to two tests.
CONSTANTS
    a = a
    b = b
    Hex = {a, b}
    Absent = Absent
    Seeds <- MCSeeds
    Files <- MCFiles
SPECIFICATION Spec
INVARIANTS GradedOnOwnPack GradeIsRight
