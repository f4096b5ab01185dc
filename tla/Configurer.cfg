CONSTANTS
    a = a
    b = b
    Writers = {w1, w2}
    Texts <- TwoTexts
    NoFile = NoFile
SPECIFICATION ConfigurerSpec
INVARIANTS ConfigurerTypeOK LoneWriteIsWhole
