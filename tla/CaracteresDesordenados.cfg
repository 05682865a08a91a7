SPECIFICATION Spec
CONSTANTS
  Letras = {1, 2, 3, 4, 5}
  Limite = 5
  LargoArray = 9
INVARIANT OrdenadosAlFin
